---- MODULE Spec2Model ----
(***************************************************************************)
(* Model of the "Summarize with AI" userscript, version 2025.07.17.1430    *)
(* (src/unlock-any-medium-article.user.js, lines 3427-5269): the model     *)
(* catalog, the custom model store, the credential store, the              *)
(* summarization orchestrator with its transport callbacks, and the        *)
(* overlay they render into.                                               *)
(*                                                                         *)
(* The script runs on the page's single event loop.  A handler runs        *)
(* without interruption up to its next `await`; an action of this module   *)
(* is one such uninterrupted stretch.                                      *)
(***************************************************************************)
EXTENDS Integers, Sequences, FiniteSets, TLC

\* ------------------------------------------------------------------------
\* Bounds
\* ------------------------------------------------------------------------
\* longest custom model list the user may build with "+ Add Custom Model"
MaxCustom == 2
\* most processSummarization invocations that are pending at the same time
MaxRuns == 2
\* most sendChatMessage invocations that are pending at the same time
MaxChats == 2
\* most entries of chatHistory
MaxTurns == 2

\* ------------------------------------------------------------------------
\* Values
\* ------------------------------------------------------------------------
\* the JavaScript value `undefined` (also: a key GM storage does not hold)
Undefined == "undefined"

\* ids the user may type at the "+ Add Custom Model" prompt
AddIds == {"gpt-4.1", "GPT-4.1", "my-model"}

\* the built-in items the user may click, next to every custom item
SelectIds == {"gpt-4.1", "gemini-flash-lite-latest"}

\* String.prototype.toLowerCase on the ids that occur in the model
toLowerCase(s) ==
  CASE s = "GPT-4.1"  -> "gpt-4.1"
    [] s = "My-Model" -> "my-model"
    [] OTHER          -> s

\* String.prototype.trim on the credential strings that occur in the model
trim(s) ==
  CASE s = " "      -> ""
    [] s = " sk-1 " -> "sk-1"
    [] OTHER        -> s

\* what the user may type at the "Reset Key" prompt
KeyInputs == {"", " ", " sk-1 "}

\* ------------------------------------------------------------------------
\* Model catalog (MODEL_GROUPS)
\* ------------------------------------------------------------------------
\* the keys of MODEL_GROUPS in declaration order (the order of `for..in`)
ServiceKeys == <<"openai", "gemini">>

Services == {ServiceKeys[i] : i \in DOMAIN ServiceKeys}

\* DEFAULT_MAX_TOKENS and HIGH_MAX_TOKENS
DEFAULT_MAX_TOKENS == 1000
HIGH_MAX_TOKENS == 1500

\* An object of generation parameters is a function from its keys to their
\* values; `params` of a model is <<>> when the model has none and
\* <<object>> otherwise.
NoParams == <<>>

\* { thinkingBudget: 0 }
ThinkingDisabled == [thinkingBudget |-> 0]

\* a model of MODEL_GROUPS
Model(id, name, params) == [id |-> id, name |-> name, params |-> params]

MODEL_GROUPS ==
  [openai |->
     [name   |-> "OpenAI",
      models |-> << Model("o4-mini", "o4 mini (better)",
                          << [max_completion_tokens |-> HIGH_MAX_TOKENS, reasoning_effort |-> "low"] >>),
                    Model("o3-mini", "o3 mini",
                          << [max_completion_tokens |-> HIGH_MAX_TOKENS, reasoning_effort |-> "low"] >>),
                    Model("gpt-4.1", "GPT-4.1", NoParams),
                    Model("gpt-4.1-mini", "GPT-4.1 mini", NoParams),
                    Model("gpt-4.1-nano", "GPT-4.1 nano (faster)", NoParams) >>,
      defaultParams |-> [max_completion_tokens |-> DEFAULT_MAX_TOKENS]],
   gemini |->
     [name   |-> "Gemini",
      models |-> << Model("gemini-flash-lite-latest", "Gemini Flash Lite (faster)",
                          << [maxOutputTokens |-> HIGH_MAX_TOKENS, thinkingConfig |-> ThinkingDisabled] >>),
                    Model("gemini-flash-latest", "Gemini Flash",
                          << [maxOutputTokens |-> HIGH_MAX_TOKENS, thinkingConfig |-> ThinkingDisabled] >>),
                    Model("gemini-pro-latest", "Gemini Pro (better)",
                          << [maxOutputTokens |-> HIGH_MAX_TOKENS] >>) >>,
      defaultParams |-> [maxOutputTokens |-> DEFAULT_MAX_TOKENS]]]

\* the initial value of `activeModel`, also the fallback of handleModelRemoval
DefaultModel == "gemini-flash-lite-latest"

\* the elements of a sequence
Range(s) == {s[i] : i \in DOMAIN s}

\* Array.prototype.find: <<>> when nothing matches, else <<first match>>
find(s, Test(_)) ==
  LET hits == {i \in DOMAIN s : Test(s[i])}
  IN  IF hits = {} THEN <<>>
      ELSE << s[CHOOSE i \in hits : \A j \in hits : i <= j] >>

\* ------------------------------------------------------------------------
\* Custom model store (GM storage key 'custom_ai_models')
\* ------------------------------------------------------------------------
\* An in-memory custom model is [id, service, supportsThinking], the flag
\* being "true", "false" or Undefined.  The stored value is a JSON text,
\* modelled by what JSON.parse makes of it: [json |-> "syntax_error"] for a
\* text that does not parse, [json |-> "object"] for a value that is not an
\* array, and [json |-> "array", elems |-> ...] for an array, an element
\* being [type, id, service, supportsThinking] with type "object", "null" or
\* "number", an absent property being Undefined and a flag that is neither
\* boolean nor absent being "string".

\* the stored text '[]'
EmptyArrayText == [json |-> "array", elems |-> <<>>]

\* GM storage does not hold the key
NoText == [json |-> Undefined, elems |-> <<>>]

\* JSON.stringify(customModels): an undefined property is left out
JSONstringify(models) ==
  [json  |-> "array",
   elems |-> [i \in DOMAIN models |->
               [type             |-> "object",
                id               |-> models[i].id,
                service          |-> models[i].service,
                supportsThinking |-> models[i].supportsThinking]]]

\* the array JSON.parse returns for the text of an array of objects
ParsedModels(text) ==
  [i \in DOMAIN text.elems |->
    [id               |-> text.elems[i].id,
     service          |-> text.elems[i].service,
     supportsThinking |-> text.elems[i].supportsThinking]]

\* a JavaScript string is truthy unless absent or empty
Truthy(s) == s # Undefined /\ s # ""

\* the test of parsedModels.every(...) without `m.service`
ValidElementWithoutService(m) ==
  /\ m.type = "object"
  /\ Truthy(m.id)
  /\ \/ m.service # "gemini"
     \/ m.supportsThinking \in {"true", "false"}
     \/ m.supportsThinking = Undefined

\* the test of parsedModels.every(...) in getCustomModels; on a null
\* element `m.id` throws, which the catch block turns into the same reset
ValidElement(m) ==
  /\ m.type = "object"
  /\ Truthy(m.id)
  /\ Truthy(m.service)
  /\ \/ m.service # "gemini"
     \/ m.supportsThinking \in {"true", "false"}
     \/ m.supportsThinking = Undefined

\* getCustomModels(): the list it returns and the text it leaves in storage
getCustomModels(stored) ==
  LET storedModels == IF stored = NoText THEN EmptyArrayText ELSE stored
  IN  IF /\ storedModels.json = "array"
         /\ \A i \in DOMAIN storedModels.elems : ValidElement(storedModels.elems[i])
      THEN [models |-> ParsedModels(storedModels), stored |-> stored]
      ELSE [models |-> <<>>, stored |-> EmptyArrayText]

\* ------------------------------------------------------------------------
\* Resolution of the active model
\* ------------------------------------------------------------------------
\* the descriptor getActiveModelConfig builds from a built-in entry
BuiltinConfig(m, serviceKey) ==
  [id |-> m.id, name |-> m.name, params |-> m.params, service |-> serviceKey,
   isCustom |-> FALSE, supportsThinking |-> Undefined]

\* the descriptor getActiveModelConfig builds from a custom entry
CustomConfig(m) ==
  [id |-> m.id, name |-> Undefined, params |-> NoParams, service |-> m.service,
   isCustom |-> TRUE, supportsThinking |-> m.supportsThinking]

\* the `for (const service in MODEL_GROUPS)` loop of getActiveModelConfig
\* with `m.id.toLowerCase() === activeModel.toLowerCase()` as its test
findStandardIgnoringCase(active) ==
  LET inGroup(k) == find(MODEL_GROUPS[ServiceKeys[k]].models,
                         LAMBDA m : toLowerCase(m.id) = toLowerCase(active))
      groups     == {k \in DOMAIN ServiceKeys : inGroup(k) # <<>>}
  IN  IF groups = {} THEN <<>>
      ELSE LET k == CHOOSE g \in groups : \A h \in groups : g <= h
           IN  << BuiltinConfig(inGroup(k)[1], ServiceKeys[k]) >>

\* the `for (const service in MODEL_GROUPS)` loop of getActiveModelConfig:
\* the first group, in declaration order, with a model whose id is
\* identical to the active id
findStandard(active) ==
  LET inGroup(k) == find(MODEL_GROUPS[ServiceKeys[k]].models,
                         LAMBDA m : m.id = active)
      groups     == {k \in DOMAIN ServiceKeys : inGroup(k) # <<>>}
  IN  IF groups = {} THEN <<>>
      ELSE LET k == CHOOSE g \in groups : \A h \in groups : g <= h
           IN  << BuiltinConfig(inGroup(k)[1], ServiceKeys[k]) >>

\* `customModels.find(m => m.id === activeModel)` and the descriptor built
\* from its result
findCustom(active, custom) ==
  LET customConfig == find(custom, LAMBDA m : m.id = active)
  IN  IF customConfig = <<>> THEN <<>>
      ELSE << CustomConfig(customConfig[1]) >>

\* getActiveModelConfig with the custom list searched before the built-ins
getActiveModelConfigCustomFirst(active, custom) ==
  IF findCustom(active, custom) # <<>>
  THEN findCustom(active, custom)
  ELSE findStandard(active)

\* getActiveModelConfig(): <<>> for null, else <<descriptor>>; the globals
\* it reads are its parameters
getActiveModelConfig(active, custom) ==
  IF findStandard(active) # <<>>
  THEN findStandard(active)
  ELSE findCustom(active, custom)

\* ------------------------------------------------------------------------
\* Requests
\* ------------------------------------------------------------------------
\* { ...a, ...b }
Spread(a, b) ==
  [k \in DOMAIN a \cup DOMAIN b |-> IF k \in DOMAIN b THEN b[k] ELSE a[k]]

\* the object after `delete object[key]`
Delete(object, key) == [k \in DOMAIN object \ {key} |-> object[k]]

\* the object after `object[key] = value`
Assign(object, key, value) ==
  [k \in DOMAIN object \cup {key} |-> IF k = key THEN value ELSE object[k]]

\* `modelConfig.params || {}`
ParamsOrEmpty(modelConfig) ==
  IF modelConfig.params = NoParams THEN <<>> ELSE modelConfig.params[1]

\* finalGenerationConfig of buildRequestBody and buildChatRequestBody
\* without the `if (modelConfig.isCustom)` block
finalGenerationConfigMergedOnly(modelConfig) ==
  Spread(MODEL_GROUPS.gemini.defaultParams, ParamsOrEmpty(modelConfig))

\* finalGenerationConfig of buildRequestBody and buildChatRequestBody
finalGenerationConfig(modelConfig) ==
  LET merged == Spread(MODEL_GROUPS.gemini.defaultParams, ParamsOrEmpty(modelConfig))
  IN  IF modelConfig.isCustom
      THEN IF modelConfig.supportsThinking = "true"
           THEN Delete(merged, "thinkingConfig")
           ELSE Assign(merged, "thinkingConfig", ThinkingDisabled)
      ELSE merged

\* finalParams of buildRequestBody and buildChatRequestBody with the model's
\* params overridden by the defaults
finalParamsDefaultsWin(modelConfig) ==
  Spread(ParamsOrEmpty(modelConfig), MODEL_GROUPS.openai.defaultParams)

\* finalParams of buildRequestBody and buildChatRequestBody
finalParams(modelConfig) ==
  Spread(MODEL_GROUPS.openai.defaultParams, ParamsOrEmpty(modelConfig))

\* a message of an OpenAI body and an entry of `contents` of a Gemini body;
\* the summarization request gives its entry no role
Message(role, content) == [role |-> role, content |-> content]

\* buildRequestBody(service, payload, modelConfig); the prompt is
\* PROMPT_TEMPLATE applied to the article of the page
buildRequestBody(service, modelConfig) ==
  IF service = "openai"
  THEN [model    |-> modelConfig.id,
        messages |-> << Message("system", "PROMPT_TEMPLATE"),
                        Message("user", "Generate the summary as requested.") >>,
        params   |-> finalParams(modelConfig)]
  ELSE [contents         |-> << Message(Undefined, "PROMPT_TEMPLATE") >>,
        generationConfig |-> finalGenerationConfig(modelConfig)]

\* DEFAULT_TIMEOUT and THINKING_TIMEOUT, in milliseconds
DEFAULT_TIMEOUT == 60000
THINKING_TIMEOUT == 300000

\* `s.includes('pro')` on the lower-cased ids that occur in the model
includesPro(s) == s \in {"gemini-pro-latest", "my-pro"}

\* /^o[34]/i.test(id) on the ids that occur in the model
isO3orO4(id) == id \in {"o3-mini", "o4-mini", "O4-custom"}

\* getRequestTimeout that looks at the thinking flags only
getRequestTimeoutByFlag(modelConfig) ==
  LET hasThinking == /\ modelConfig.params # NoParams
                     /\ "thinkingConfig" \notin DOMAIN modelConfig.params[1]
      customWithThinking == modelConfig.isCustom /\ modelConfig.supportsThinking = "true"
  IN  IF hasThinking \/ customWithThinking
      THEN THINKING_TIMEOUT
      ELSE DEFAULT_TIMEOUT

\* getRequestTimeout(modelConfig)
getRequestTimeout(modelConfig) ==
  LET hasThinking == /\ modelConfig.params # NoParams
                     /\ "thinkingConfig" \notin DOMAIN modelConfig.params[1]
      isProModel  == includesPro(toLowerCase(modelConfig.id))
      customWithThinking == modelConfig.isCustom /\ modelConfig.supportsThinking = "true"
  IN  IF hasThinking \/ isProModel \/ isO3orO4(modelConfig.id) \/ customWithThinking
      THEN THINKING_TIMEOUT
      ELSE DEFAULT_TIMEOUT

\* the call of GM.xmlHttpRequest by sendApiRequest(service, apiKey, payload,
\* modelConfig): what it sends, and the timeout it sets
sendApiRequest(service, apiKey, modelConfig) ==
  [service |-> service,
   model   |-> modelConfig.id,
   apiKey  |-> apiKey,
   body    |-> buildRequestBody(service, modelConfig),
   timeout |-> getRequestTimeout(modelConfig)]

\* the first message of a chat request: the system context, built from the
\* article and from lastSummary
systemContext(last) == [context |-> "article", summary |-> last]

\* buildChatRequestBody(service, modelConfig); the chatHistory and the
\* lastSummary it reads are its parameters
buildChatRequestBody(service, modelConfig, history, last) ==
  IF service = "openai"
  THEN [model    |-> modelConfig.id,
        messages |-> << Message("system", systemContext(last)) >>
                       \o [i \in DOMAIN history |->
                             Message(history[i].role, history[i].content)],
        params   |-> finalParams(modelConfig)]
  ELSE [contents |-> << Message("user", systemContext(last)),
                        Message("model", "I understand.") >>
                       \o [i \in DOMAIN history |->
                             Message(IF history[i].role = "user" THEN "user" ELSE "model",
                                     history[i].content)],
        generationConfig |-> finalGenerationConfig(modelConfig)]

\* the call of GM.xmlHttpRequest by sendChatRequest(service, apiKey,
\* modelConfig)
sendChatRequest(service, apiKey, modelConfig, history, last) ==
  [service |-> service,
   model   |-> modelConfig.id,
   apiKey  |-> apiKey,
   body    |-> buildChatRequestBody(service, modelConfig, history, last),
   timeout |-> getRequestTimeout(modelConfig)]

\* ------------------------------------------------------------------------
\* Dropdown listing
\* ------------------------------------------------------------------------
\* the reduce of populateDropdown with `existing.id === model.id` as its test
RECURSIVE dedupeExact(_)
dedupeExact(s) ==
  IF s = <<>> THEN <<>>
  ELSE LET front == dedupeExact(SubSeq(s, 1, Len(s) - 1))
           last  == s[Len(s)]
       IN  IF \E i \in DOMAIN front : front[i] = last
           THEN front
           ELSE Append(front, last)

\* the reduce of populateDropdown: keep the first entry of each id,
\* ignoring case
RECURSIVE dedupe(_)
dedupe(s) ==
  IF s = <<>> THEN <<>>
  ELSE LET front == dedupe(SubSeq(s, 1, Len(s) - 1))
           last  == s[Len(s)]
       IN  IF \E i \in DOMAIN front : toLowerCase(front[i]) = toLowerCase(last)
           THEN front
           ELSE Append(front, last)

\* the ids of a sequence of entries
Ids(s) == [i \in DOMAIN s |-> s[i].id]

\* the place of an id in the order of String.prototype.localeCompare,
\* among the ids that occur in the model: punctuation before digits before
\* letters, a prefix before its extensions, and lower case before upper
\* case between ids that differ in case only
localeRank(id) ==
  CASE id = "gemini-flash-latest"      -> 1
    [] id = "gemini-flash-lite-latest" -> 2
    [] id = "gemini-pro-latest"        -> 3
    [] id = "gpt-4.1"                  -> 4
    [] id = "GPT-4.1"                  -> 5
    [] id = "gpt-4.1-mini"             -> 6
    [] id = "gpt-4.1-nano"             -> 7
    [] id = "my-model"                 -> 8
    [] id = "My-Model"                 -> 9
    [] id = "o3-mini"                  -> 10
    [] id = "o4-mini"                  -> 11
    [] OTHER                           -> 12

\* a.localeCompare(b)
localeCompare(a, b) == localeRank(a) - localeRank(b)

\* allModelObjects of populateDropdown for one group, as ids: the built-ins
\* followed by the custom models of the service, reduced and sorted
allModelObjects(custom, service) ==
  LET standardModels      == MODEL_GROUPS[service].models
      serviceCustomModels == SelectSeq(custom, LAMBDA m : m.service = service)
  IN  SortSeq(dedupe(Ids(standardModels) \o Ids(serviceCustomModels)),
              LAMBDA a, b : localeCompare(a, b) < 0)

\* the model items populateDropdown creates, as [id, service]
populateDropdown(custom) ==
  UNION { {[id |-> allModelObjects(custom, service)[i], service |-> service] :
             i \in DOMAIN allModelObjects(custom, service)}
        : service \in Services }

\* createModelItem's isCustom: no built-in of the group has exactly this id
isCustomItem(item) ==
  ~ \E i \in DOMAIN MODEL_GROUPS[item.service].models :
      MODEL_GROUPS[item.service].models[i].id = item.id

\* ------------------------------------------------------------------------
\* Provider responses
\* ------------------------------------------------------------------------
\* A text is a sequence of characters.  A response body, once parsed, is
\*   [hasError, errorMessage, message, choice, candidate]
\* hasError: the body has a truthy `error`; errorMessage: error.message;
\* message: the top-level message; choice: choices[0]; candidate:
\* candidates[0].  An absent string is Undefined, an absent text has
\* type "undefined".

NoChoice ==
  [present |-> FALSE, contentType |-> "undefined", content |-> <<>>,
   finish_reason |-> Undefined]

NoCandidate ==
  [present |-> FALSE, finishReason |-> Undefined, hasParts |-> FALSE,
   parts |-> <<>>, hasRatings |-> FALSE, safetyRatings |-> <<>>]

\* the body {}
EmptyObject ==
  [hasError |-> FALSE, errorMessage |-> Undefined, message |-> Undefined,
   choice |-> NoChoice, candidate |-> NoCandidate]

\* choices[0] = {message: {content}, finish_reason}
Choice(contentType, content, finish_reason) ==
  [present |-> TRUE, contentType |-> contentType, content |-> content,
   finish_reason |-> finish_reason]

\* candidates[0] = {finishReason, content: {parts}, safetyRatings}
Candidate(finishReason, hasParts, parts, hasRatings, safetyRatings) ==
  [present |-> TRUE, finishReason |-> finishReason, hasParts |-> hasParts,
   parts |-> parts, hasRatings |-> hasRatings, safetyRatings |-> safetyRatings]

\* one element of content.parts: {text}
Part(textType, text) == [textType |-> textType, text |-> text]

\* What GM.xmlHttpRequest hands to onload: the status, the status text,
\* `response` (an object when the host parsed the body as JSON, falsy
\* otherwise) and `responseText`, whose kind is "empty", "json" (the text
\* of `data`) or "not_json" (e.g. an HTML error page).
Response(status, statusText, parsed, text, data) ==
  [status |-> status, statusText |-> statusText, parsed |-> parsed,
   text |-> text, data |-> data]

\* onload's `typeof responseData === 'object' ? responseData :
\* JSON.parse(responseData || '{}')`: ok is FALSE when JSON.parse throws
ParseBody(response) ==
  IF response.parsed THEN [ok |-> TRUE, data |-> response.data]
  ELSE IF response.text = "empty" THEN [ok |-> TRUE, data |-> EmptyObject]
  ELSE IF response.text = "json" THEN [ok |-> TRUE, data |-> response.data]
  ELSE [ok |-> FALSE, data |-> EmptyObject]

\* rawSummary.replace(/\n/g, ' ')
ReplaceNewlines(t) == [i \in DOMAIN t |-> IF t[i] = "\n" THEN " " ELSE t[i]]

\* .replace(/ {2,}/g, ' '): a run of spaces becomes one space
RECURSIVE CollapseSpaces(_)
CollapseSpaces(t) ==
  IF Len(t) <= 1 THEN t
  ELSE IF t[1] = " " /\ t[2] = " " THEN CollapseSpaces(Tail(t))
  ELSE <<t[1]>> \o CollapseSpaces(Tail(t))

\* String.prototype.trim on a text whose only white space is the space
RECURSIVE TrimText(_)
TrimText(t) ==
  IF t = <<>> THEN t
  ELSE IF t[1] = " " THEN TrimText(Tail(t))
  ELSE IF t[Len(t)] = " " THEN TrimText(SubSeq(t, 1, Len(t) - 1))
  ELSE t

\* cleanedSummary of handleApiResponse
CleanSummary(rawSummary) == TrimText(CollapseSpaces(ReplaceNewlines(rawSummary)))

\* The outcome of handleApiResponse(response, service), response being the
\* value sendApiRequest resolved with: it either throws an Error (kind
\* "throw", with the error's class and detail) or calls
\* updateSummaryOverlay(cleanedSummary, false) (kind "render").
Thrown(err, status, details) ==
  [kind |-> "throw", err |-> err, status |-> status, details |-> details, text |-> <<>>]

\* Array.prototype.join(', ') on texts
RECURSIVE join(_)
join(texts) ==
  IF texts = <<>> THEN <<>>
  ELSE IF Len(texts) = 1 THEN texts[1]
  ELSE texts[1] \o << ", " >> \o join(Tail(texts))

\* the safetyRatings of handleApiResponse that lists the first rating only
safetyRatingsFirstOnly(candidate) ==
  IF candidate.hasRatings /\ candidate.safetyRatings # <<>>
  THEN << candidate.safetyRatings[1][1], ": ", candidate.safetyRatings[1][2] >>
  ELSE <<>>

\* `candidate.safetyRatings?.map(r => `${r.category}: ${r.probability}`)
\* .join(', ')`, with <<>> for undefined and for the empty text
safetyRatings(candidate) ==
  IF candidate.hasRatings
  THEN join([k \in DOMAIN candidate.safetyRatings |->
               << candidate.safetyRatings[k][1], ": ", candidate.safetyRatings[k][2] >>])
  ELSE <<>>

Rendered(text) ==
  [kind |-> "render", err |-> "", status |-> 0, details |-> "", text |-> text]

handleApiResponse(resolved, service) ==
  LET status == resolved.status
      data   == resolved.data
      errorDetails ==
        IF Truthy(data.errorMessage) THEN data.errorMessage
        ELSE IF Truthy(data.message) THEN data.message
        ELSE IF Truthy(resolved.statusText) THEN resolved.statusText
        ELSE "Unknown API error"
      choice    == data.choice
      candidate == data.candidate
      \* rawSummary as [type, text]; type "undefined" and "null" are falsy,
      \* and so is the empty string
      openaiRaw == [type |-> choice.contentType, text |-> choice.content]
      geminiRaw ==
        IF /\ candidate.hasParts
           /\ Len(candidate.parts) > 0
           /\ candidate.parts[1].textType = "string"
           /\ candidate.parts[1].text # <<>>
        THEN [type |-> "string", text |-> candidate.parts[1].text]
        ELSE [type |-> "string", text |-> <<>>]
      rawSummary == IF service = "openai" THEN openaiRaw
                    ELSE IF service = "gemini" THEN geminiRaw
                    ELSE [type |-> "string", text |-> <<>>]
      falsy == rawSummary.type # "string" \/ rawSummary.text = <<>>
  IN  IF status < 200 \/ status >= 300
      THEN Thrown("ApiError", status, errorDetails)
      ELSE IF service = "gemini" /\ candidate.finishReason = "SAFETY"
      THEN [Thrown("SafetyBlocked", status,
                   IF safetyRatings(candidate) = <<>> THEN "No details" ELSE "ratings")
              EXCEPT !.text = safetyRatings(candidate)]
      ELSE IF falsy /\ ~ data.hasError
      THEN Thrown("NoValidSummary", status, "")
      ELSE IF rawSummary.type # "string"
      THEN \* rawSummary.replace on undefined or null
           Thrown("TypeError", status, "")
      ELSE Rendered(CleanSummary(rawSummary.text))

\* ------------------------------------------------------------------------
\* Overlay
\* ------------------------------------------------------------------------
\* The overlay is [exists, body, retry, chat]: whether #summarize-overlay is
\* in the document, what .summarize-body shows, and whether the Try Again
\* button and the chat interface are part of it.  A body is
\* [kind, text, err, status, details].

NoBody == [kind |-> "none", text |-> <<>>, err |-> "", status |-> 0, details |-> ""]

\* `<p class="glow">Summarizing with ${modelDisplayName}... </p>`
LoadingBody(modelDisplayName) ==
  [kind |-> "loading", text |-> <<>>, err |-> "", status |-> 0, details |-> modelDisplayName]

\* the cleaned summary, rendered as HTML
SummaryBody(text) ==
  [kind |-> "summary", text |-> text, err |-> "", status |-> 0, details |-> ""]

\* `<p style="color: red;">Error: ${error.message}</p>`
ErrorBody(err, status, details, text) ==
  [kind |-> "error", text |-> text, err |-> err, status |-> status, details |-> details]

\* `<p style="color: red;">API key for ${service} is required. ...</p>`
KeyRequiredBody(service) ==
  [kind |-> "key_required", text |-> <<>>, err |-> "", status |-> 0, details |-> service]

NoOverlay == [exists |-> FALSE, body |-> NoBody, retry |-> FALSE, chat |-> FALSE]

\* contentHTML.includes('class="glow"'): only the loading message has it
HasGlow(body) == body.kind = "loading"

\* updateSummaryOverlay(contentHTML, isError): nothing without #summarize-content
updateSummaryOverlay(ov, body, isError) ==
  IF ov.exists
  THEN [exists |-> TRUE, body |-> body, retry |-> isError,
        chat |-> ~ isError /\ ~ HasGlow(body)]
  ELSE ov

\* showSummaryOverlay(contentHTML, isError): updates the overlay if there is
\* one, creates it otherwise
showSummaryOverlay(ov, body, isError) ==
  IF ov.exists
  THEN updateSummaryOverlay(ov, body, isError)
  ELSE [exists |-> TRUE, body |-> body, retry |-> isError,
        chat |-> ~ isError /\ ~ HasGlow(body)]

\* chatHistory after showSummaryOverlay: reset when the overlay is created
chatHistoryAfterShow(ov, history) == IF ov.exists THEN history ELSE <<>>

\* lastSummary after updateSummaryOverlay(contentHTML, isError): the content,
\* when the overlay exists and the chat interface is added to it
lastSummaryAfterUpdate(ov, body, isError, last) ==
  IF ov.exists /\ ~ isError /\ ~ HasGlow(body) THEN body ELSE last

\* the pending sendChatMessage invocations after the content of the overlay
\* is rebuilt or the overlay is removed: the input and the button they
\* disabled are no longer in the document
Detached(pending) == [j \in DOMAIN pending |-> [pending[j] EXCEPT !.attached = FALSE]]

\* the dropdown when it is not displayed; toggleDropdown repopulates it
\* before it is shown again, so the items it then holds are never seen
HiddenDropdown == [visible |-> FALSE, items |-> {}]

\* ------------------------------------------------------------------------
\* Credential store
\* ------------------------------------------------------------------------
\* getApiKey(service): `apiKey?.trim() || null`, null being ""
getApiKey(store, service) ==
  LET apiKey == IF service = "openai" THEN store.openai_api_key
                ELSE store.gemini_api_key
  IN  IF apiKey = Undefined THEN "" ELSE trim(apiKey)

\* ------------------------------------------------------------------------
\* State
\* ------------------------------------------------------------------------
VARIABLES
  storage,        \* GM storage: custom_ai_models, last_used_model, the API keys
  activeModel,    \* let activeModel
  articleData,    \* let articleData, as "is not null"
  customModels,   \* let customModels
  initPc,         \* where initialize() stands
  initRead,       \* what its pending GM.getValue('last_used_model') resolves with
  dropdown,       \* #model-dropdown: [visible, items]
  overlay,        \* #summarize-overlay
  notification,   \* #summarize-error, the 4 second notification
  alertShown,     \* the last alert() the script raised
  runs,           \* pending processSummarization invocations, oldest first
  removals,       \* pending handleModelRemoval invocations, oldest first
  chatHistory,    \* let chatHistory
  lastSummary,    \* let lastSummary, as the body it was taken from
  chats,          \* pending sendChatMessage invocations, oldest first
  failedRun,      \* history: <<the modelConfig of the run whose error the
                  \* overlay shows next to Try Again>>, else <<>>
  \* Poe Notifier (README.md)
  poePc,                      \* "start" until the script has run, then "monitoring"
  pageWaiting,                \* WAITING_REGEX.test(document.body.textContent)
  headLink,                   \* the document's link[rel="icon"]: <<href>>, or <<>>
  faviconLinkElement,         \* let faviconLinkElement: "null" or "link"
  originalFaviconUrl,         \* let originalFaviconUrl
  isCurrentlyWaiting,         \* let isCurrentlyWaiting
  checkDebounceTimer,         \* the 250 ms timer is pending
  notificationDebounceTimer,  \* the 300 ms timer is pending
  notifications,              \* GM_notification calls made
  waits,                      \* times the page has shown "Waiting..."
  finished,                   \* history: waiting -> not-waiting transitions detected
  cancelled                   \* history: pending notifications cleared

\* the state of the chat feature
chatVars == << chatHistory, lastSummary, chats >>

vars == << storage, activeModel, articleData, customModels, initPc, initRead,
           dropdown, overlay, notification, alertShown, runs, removals,
           chatHistory, lastSummary, chats, failedRun,
           poePc, pageWaiting, headLink, faviconLinkElement,
           originalFaviconUrl, isCurrentlyWaiting, checkDebounceTimer,
           notificationDebounceTimer, notifications, waits, finished,
           cancelled >>

\* the state of the Poe Notifier and of the page it watches
poeVars == << poePc, pageWaiting, headLink, faviconLinkElement,
              originalFaviconUrl, isCurrentlyWaiting, checkDebounceTimer,
              notificationDebounceTimer, notifications, waits, finished,
              cancelled >>

\* the state of Summarize with AI
summarizeVars == << storage, activeModel, articleData, customModels, initPc,
                    initRead, dropdown, overlay, notification, alertShown,
                    runs, removals, chatHistory, lastSummary, chats,
                    failedRun >>

\* the favicon poe.com serves
PoeFavicon == "https://poe.com/favicon.ico"

\* the globals of the Poe Notifier before the script runs
PoeGlobals ==
  /\ poePc = "start"
  /\ faviconLinkElement = "null"
  /\ originalFaviconUrl = ""
  /\ isCurrentlyWaiting = FALSE
  /\ checkDebounceTimer = FALSE
  /\ notificationDebounceTimer = FALSE
  /\ notifications = 0
  /\ waits = 0
  /\ finished = 0
  /\ cancelled = 0

\* #summarize-button is in the document
ButtonExists == initPc # "start" /\ articleData

\* the overlay covers the viewport above the button and the dropdown, so the
\* pointer reaches those only while there is no overlay
PointerReachesPage == ~ overlay.exists

\* a sequence without its i-th element
RemoveAt(s, i) == SubSeq(s, 1, i - 1) \o SubSeq(s, i + 1, Len(s))

\* ------------------------------------------------------------------------
\* Initial state
\* ------------------------------------------------------------------------
CustomModel(id, service, supportsThinking) ==
  [id |-> id, service |-> service, supportsThinking |-> supportsThinking]

Element(type, id, service, supportsThinking) ==
  [type |-> type, id |-> id, service |-> service, supportsThinking |-> supportsThinking]

\* a text that does not parse, and the text of one custom Gemini model
BrokenText == [json |-> "syntax_error", elems |-> <<>>]
OneModelText == JSONstringify(<< CustomModel("my-model", "gemini", "true") >>)

\* values of 'custom_ai_models' the script may find when a page loads
InitialModelTexts ==
  { NoText,
    BrokenText,
    [json |-> "object", elems |-> <<>>],
    [json |-> "array", elems |-> << Element("object", "my-model", Undefined, Undefined) >>],
    [json |-> "array", elems |-> << Element("object", Undefined, "openai", Undefined) >>],
    [json |-> "array", elems |-> << Element("object", "", "openai", Undefined) >>],
    [json |-> "array", elems |-> << Element("object", "my-model", "gemini", "string") >>],
    [json |-> "array", elems |-> << Element("number", Undefined, Undefined, Undefined) >>],
    [json |-> "array", elems |-> << Element("object", "my-model", "gemini", "true"),
                                    Element("null", Undefined, Undefined, Undefined) >>],
    OneModelText,
    JSONstringify(<< CustomModel("my-model", "openai", Undefined),
                     CustomModel("My-Model", "openai", Undefined) >>),
    JSONstringify(<< CustomModel("GPT-4.1", "openai", Undefined) >>) }

\* GM storage without API keys
Storage(text, lastUsed) ==
  [custom_ai_models |-> text, last_used_model |-> lastUsed,
   openai_api_key |-> Undefined, gemini_api_key |-> Undefined]

\* what the script may find when a page loads: any of the texts and no last
\* used model, or the custom model selected on an earlier page with the text
\* that holds it or with a text damaged since
InitialStorages ==
  { Storage(text, Undefined) : text \in InitialModelTexts }
    \cup { Storage(OneModelText, "my-model"), Storage(BrokenText, "my-model") }

\* the script's variables as their declarations initialise them
FreshPage ==
  /\ activeModel = DefaultModel
  /\ articleData = FALSE
  /\ customModels = <<>>
  /\ initPc = "start"
  /\ initRead = Undefined
  /\ dropdown = HiddenDropdown
  /\ overlay = NoOverlay
  /\ notification = "none"
  /\ alertShown = "none"
  /\ runs = <<>>
  /\ removals = <<>>
  /\ chatHistory = <<>>
  /\ lastSummary = NoBody
  /\ chats = <<>>
  /\ failedRun = <<>>
  /\ PoeGlobals
  /\ pageWaiting = FALSE
  /\ headLink = << PoeFavicon >>

\* a page load of a user who has stored both API keys and no custom model
Init ==
  /\ storage = [custom_ai_models |-> NoText,
                last_used_model  |-> Undefined,
                openai_api_key   |-> "sk-1",
                gemini_api_key   |-> "sk-1"]
  /\ FreshPage

\* a page load of a user who has stored no API key, with any of the custom
\* model texts
InitModels ==
  /\ storage \in InitialStorages
  /\ FreshPage

\* ------------------------------------------------------------------------
\* initialize()
\* ------------------------------------------------------------------------
\* up to its second await: the custom models are loaded (nothing else can
\* run before that, there is no listener and no button yet), the article is
\* extracted and, if there is one, the button is added and the read of
\* 'last_used_model' is issued with the current activeModel as its default
initialize ==
  /\ initPc = "start"
  /\ LET loaded == getCustomModels(storage.custom_ai_models)
     IN  /\ customModels' = loaded.models
         /\ storage' = [storage EXCEPT !.custom_ai_models = loaded.stored]
  /\ \E article \in BOOLEAN :
       /\ articleData' = article
       /\ IF article
          THEN /\ initPc' = "awaitLastUsed"
               /\ initRead' = IF storage.last_used_model = Undefined
                               THEN activeModel
                               ELSE storage.last_used_model
          ELSE /\ initPc' = "done"
               /\ initRead' = initRead
  /\ UNCHANGED << activeModel, dropdown, overlay, notification, alertShown,
                  runs, removals >>
  /\ UNCHANGED << chatVars, failedRun >>
  /\ UNCHANGED poeVars

\* `activeModel = await GM.getValue('last_used_model', activeModel)` resumes
initializeResume ==
  /\ initPc = "awaitLastUsed"
  /\ activeModel' = initRead
  /\ initPc' = "done"
  /\ UNCHANGED << storage, articleData, customModels, initRead, dropdown,
                  overlay, notification, alertShown, runs, removals >>
  /\ UNCHANGED << chatVars, failedRun >>
  /\ UNCHANGED poeVars

\* ------------------------------------------------------------------------
\* processSummarization()
\* ------------------------------------------------------------------------
\* up to `await getApiKey(service)`, with the activeModel and the storage
\* the caller leaves: sets runs' and notification'.  A pending invocation
\* is [pc, config, apiKey, request]: where it stands, its modelConfig, what
\* its getApiKey returns, and <<the request>> once it has sent one.
processSummarization(active, store) ==
  IF ~ articleData
  THEN /\ notification' = "article_not_found"
       /\ runs' = runs
  ELSE LET modelConfig == getActiveModelConfig(active, customModels)
       IN  IF modelConfig = <<>>
           THEN /\ notification' = "model_not_found"
                /\ runs' = runs
           ELSE /\ runs' = Append(runs, [pc      |-> "awaitKey",
                                         config  |-> modelConfig[1],
                                         apiKey  |-> getApiKey(store, modelConfig[1].service),
                                         request |-> <<>>])
                /\ notification' = notification

\* from the return of getApiKey to the call of GM.xmlHttpRequest
processSummarizationGotKey(i) ==
  /\ runs[i].pc = "awaitKey"
  /\ LET run == runs[i]
         modelDisplayName == IF run.config.name # Undefined THEN run.config.name
                             ELSE run.config.id
     IN  IF run.apiKey = ""
         THEN /\ runs' = RemoveAt(runs, i)
              /\ IF overlay.exists
                 THEN /\ overlay' = updateSummaryOverlay(overlay,
                                        KeyRequiredBody(run.config.service), FALSE)
                      /\ lastSummary' = lastSummaryAfterUpdate(overlay,
                                           KeyRequiredBody(run.config.service), FALSE, lastSummary)
                      /\ chats' = Detached(chats)
                      /\ failedRun' = <<>>
                      /\ notification' = notification
                 ELSE /\ notification' = "key_required"
                      /\ UNCHANGED << overlay, lastSummary, chats, failedRun >>
              /\ chatHistory' = chatHistory
         ELSE /\ overlay' = IF overlay.exists
                             THEN updateSummaryOverlay(overlay, LoadingBody(modelDisplayName), FALSE)
                             ELSE showSummaryOverlay(overlay, LoadingBody(modelDisplayName), FALSE)
              /\ runs' = [runs EXCEPT
                            ![i].pc = "inFlight",
                            ![i].request = << sendApiRequest(run.config.service, run.apiKey, run.config) >>]
              /\ chatHistory' = chatHistoryAfterShow(overlay, chatHistory)
              /\ chats' = Detached(chats)
              /\ failedRun' = <<>>
              /\ lastSummary' = lastSummary
              /\ notification' = notification
  /\ UNCHANGED << storage, activeModel, articleData, customModels, initPc,
                  initRead, dropdown, alertShown, removals >>
  /\ UNCHANGED poeVars

\* the catch block of the processSummarization invocation run
catchError(run, err, status, details, text) ==
  /\ overlay' = showSummaryOverlay(overlay, ErrorBody(err, status, details, text), TRUE)
  /\ failedRun' = << run.config >>
  /\ chatHistory' = chatHistoryAfterShow(overlay, chatHistory)
  /\ chats' = Detached(chats)
  /\ lastSummary' = lastSummary
  /\ dropdown' = HiddenDropdown

\* onload of sendApiRequest and, when it resolves the promise, the rest of
\* processSummarization.  When JSON.parse throws inside onload the promise
\* is neither resolved nor rejected and processSummarization never resumes.
onload(i, response) ==
  /\ runs[i].pc = "inFlight"
  /\ runs' = RemoveAt(runs, i)
  /\ LET body == ParseBody(response)
         resolved == [status |-> response.status, data |-> body.data,
                      statusText |-> response.statusText]
         result == handleApiResponse(resolved, runs[i].config.service)
     IN  IF ~ body.ok
         THEN UNCHANGED << overlay, dropdown, chatHistory, lastSummary, chats, failedRun >>
         ELSE IF result.kind = "render"
         THEN /\ overlay' = updateSummaryOverlay(overlay, SummaryBody(result.text), FALSE)
              /\ lastSummary' = lastSummaryAfterUpdate(overlay, SummaryBody(result.text),
                                                       FALSE, lastSummary)
              /\ chats' = IF overlay.exists THEN Detached(chats) ELSE chats
              /\ failedRun' = IF overlay.exists THEN <<>> ELSE failedRun
              /\ UNCHANGED << dropdown, chatHistory >>
         ELSE catchError(runs[i], result.err, result.status, result.details, result.text)
  /\ UNCHANGED << storage, activeModel, articleData, customModels, initPc,
                  initRead, notification, alertShown, removals >>
  /\ UNCHANGED poeVars

\* onerror, onabort, ontimeout of sendApiRequest: the promise is rejected
\* and the catch block of processSummarization runs
onerror(i) ==
  /\ runs[i].pc = "inFlight"
  /\ runs' = RemoveAt(runs, i)
  /\ catchError(runs[i], "NetworkError", 0, "Failed to connect", <<>>)
  /\ UNCHANGED << storage, activeModel, articleData, customModels, initPc,
                  initRead, notification, alertShown, removals >>
  /\ UNCHANGED poeVars

onabort(i) ==
  /\ runs[i].pc = "inFlight"
  /\ runs' = RemoveAt(runs, i)
  /\ catchError(runs[i], "Aborted", 0, "Request aborted", <<>>)
  /\ UNCHANGED << storage, activeModel, articleData, customModels, initPc,
                  initRead, notification, alertShown, removals >>
  /\ UNCHANGED poeVars

ontimeout(i) ==
  /\ runs[i].pc = "inFlight"
  /\ runs' = RemoveAt(runs, i)
  /\ catchError(runs[i], "Timeout", 0, "Request timed out", <<>>)
  /\ UNCHANGED << storage, activeModel, articleData, customModels, initPc,
                  initRead, notification, alertShown, removals >>
  /\ UNCHANGED poeVars

\* ------------------------------------------------------------------------
\* Triggers and overlay events
\* ------------------------------------------------------------------------
\* a short click on the 'S' button
buttonClick ==
  /\ ButtonExists /\ PointerReachesPage
  /\ Len(runs) < MaxRuns
  /\ processSummarization(activeModel, storage)
  /\ UNCHANGED << storage, activeModel, articleData, customModels, initPc,
                  initRead, dropdown, overlay, alertShown, removals >>
  /\ UNCHANGED << chatVars, failedRun >>
  /\ UNCHANGED poeVars

\* handleKeyPress, Alt+S: needs the button in the document
handleKeyPressAltS ==
  /\ ButtonExists
  /\ Len(runs) < MaxRuns
  /\ processSummarization(activeModel, storage)
  /\ UNCHANGED << storage, activeModel, articleData, customModels, initPc,
                  initRead, dropdown, overlay, alertShown, removals >>
  /\ UNCHANGED << chatVars, failedRun >>
  /\ UNCHANGED poeVars

\* a click on Try Again
retryClick ==
  /\ overlay.exists /\ overlay.retry
  /\ Len(runs) < MaxRuns
  /\ processSummarization(activeModel, storage)
  /\ UNCHANGED << storage, activeModel, articleData, customModels, initPc,
                  initRead, dropdown, overlay, alertShown, removals >>
  /\ UNCHANGED << chatVars, failedRun >>
  /\ UNCHANGED poeVars

\* closeOverlay(), from the close button or a click on the background
closeOverlay ==
  /\ overlay.exists
  /\ overlay' = NoOverlay
  /\ chats' = Detached(chats)
  /\ failedRun' = <<>>
  /\ UNCHANGED << storage, activeModel, articleData, customModels, initPc,
                  initRead, dropdown, notification, alertShown, runs, removals,
                  chatHistory, lastSummary >>
  /\ UNCHANGED poeVars

\* handleKeyPress, Escape: closes the overlay, else hides the dropdown
handleKeyPressEscape ==
  /\ initPc # "start"
  /\ overlay.exists \/ dropdown.visible
  /\ IF overlay.exists
     THEN /\ overlay' = NoOverlay /\ dropdown' = dropdown
          /\ chats' = Detached(chats) /\ failedRun' = <<>>
     ELSE /\ overlay' = overlay /\ dropdown' = HiddenDropdown
          /\ chats' = chats /\ failedRun' = failedRun
  /\ UNCHANGED << chatHistory, lastSummary >>
  /\ UNCHANGED << storage, activeModel, articleData, customModels, initPc,
                  initRead, notification, alertShown, runs, removals >>
  /\ UNCHANGED poeVars

\* toggleDropdown(), after a long press on the 'S' button
toggleDropdown ==
  /\ ButtonExists /\ PointerReachesPage
  /\ dropdown' = IF dropdown.visible THEN HiddenDropdown
                  ELSE [visible |-> TRUE, items |-> populateDropdown(customModels)]
  /\ UNCHANGED << storage, activeModel, articleData, customModels, initPc,
                  initRead, overlay, notification, alertShown, runs, removals >>
  /\ UNCHANGED << chatVars, failedRun >>
  /\ UNCHANGED poeVars

\* handleOutsideClick(): a click outside the dropdown and the button
handleOutsideClick ==
  /\ dropdown.visible /\ PointerReachesPage
  /\ dropdown' = HiddenDropdown
  /\ UNCHANGED << storage, activeModel, articleData, customModels, initPc,
                  initRead, overlay, notification, alertShown, runs, removals >>
  /\ UNCHANGED << chatVars, failedRun >>
  /\ UNCHANGED poeVars

\* the click listener of a model item
selectModel(item) ==
  /\ dropdown.visible /\ PointerReachesPage
  /\ item \in dropdown.items
  /\ isCustomItem(item) \/ item.id \in SelectIds
  /\ Len(runs) < MaxRuns
  /\ activeModel' = item.id
  /\ storage' = [storage EXCEPT !.last_used_model = item.id]
  /\ dropdown' = HiddenDropdown
  /\ processSummarization(item.id, storage')
  /\ UNCHANGED << articleData, customModels, initPc, initRead, overlay,
                  alertShown, removals >>
  /\ UNCHANGED << chatVars, failedRun >>
  /\ UNCHANGED poeVars

\* the timer of showErrorNotification removes the notification
notificationTimeout ==
  /\ notification # "none"
  /\ notification' = "none"
  /\ UNCHANGED << storage, activeModel, articleData, customModels, initPc,
                  initRead, dropdown, overlay, alertShown, runs, removals >>
  /\ UNCHANGED << chatVars, failedRun >>
  /\ UNCHANGED poeVars

\* ------------------------------------------------------------------------
\* Custom models and credentials
\* ------------------------------------------------------------------------
\* addCustomModel's existsInCustom with `m.id === modelId` as its test
existsInCustomExact(custom, service, modelId) ==
  \E i \in DOMAIN custom :
    custom[i].service = service /\ custom[i].id = modelId

\* addCustomModel's existsInCustom: a custom model of the service has the
\* id, ignoring case
existsInCustom(custom, service, modelId) ==
  \E i \in DOMAIN custom :
    custom[i].service = service /\ toLowerCase(custom[i].id) = toLowerCase(modelId)

\* addCustomModel's existsInStandard with `m.id === modelId` as its test
existsInStandardExact(service, modelId) ==
  \E i \in DOMAIN MODEL_GROUPS[service].models :
    MODEL_GROUPS[service].models[i].id = modelId

\* addCustomModel's existsInStandard: a built-in of the service has the id,
\* ignoring case
existsInStandard(service, modelId) ==
  \E i \in DOMAIN MODEL_GROUPS[service].models :
    toLowerCase(MODEL_GROUPS[service].models[i].id) = toLowerCase(modelId)

\* addCustomModel(service, modelId, supportsThinking): the list, the stored
\* text and the alert it leaves
addCustomModel(custom, stored, service, modelId, supportsThinking) ==
  IF existsInCustom(custom, service, modelId) \/ existsInStandard(service, modelId)
  THEN [models |-> custom, stored |-> stored, alert |-> "already_exists"]
  ELSE LET newModel == CustomModel(modelId, service,
                         IF service = "gemini" THEN supportsThinking ELSE Undefined)
           pushed   == Append(custom, newModel)
       IN  [models |-> pushed, stored |-> JSONstringify(pushed), alert |-> "added"]

\* a click on "+ Add Custom Model": hides the dropdown, then handleAddModel()
\* with what the user types at its prompts
handleAddModel(service, modelId, thinkingInput) ==
  /\ dropdown.visible /\ PointerReachesPage
  /\ dropdown' = HiddenDropdown
  /\ IF service \notin Services
     THEN /\ alertShown' = "invalid_service"
          /\ UNCHANGED << customModels, storage >>
     ELSE IF modelId = ""
     THEN /\ alertShown' = "empty_id"
          /\ UNCHANGED << customModels, storage >>
     ELSE IF service = "gemini" /\ thinkingInput \notin {"yes", "no"}
     THEN /\ alertShown' = "invalid_thinking"
          /\ UNCHANGED << customModels, storage >>
     ELSE LET supportsThinking ==
                IF service # "gemini" THEN Undefined
                ELSE IF thinkingInput = "yes" THEN "true" ELSE "false"
              added == addCustomModel(customModels, storage.custom_ai_models,
                                      service, modelId, supportsThinking)
          IN  /\ Len(added.models) <= MaxCustom
              /\ customModels' = added.models
              /\ storage' = [storage EXCEPT !.custom_ai_models = added.stored]
              /\ alertShown' = added.alert
  /\ UNCHANGED << activeModel, articleData, initPc, initRead, overlay,
                  notification, runs, removals >>
  /\ UNCHANGED << chatVars, failedRun >>
  /\ UNCHANGED poeVars

\* the filter of handleModelRemoval
removeModel(custom, modelId, service) ==
  SelectSeq(custom, LAMBDA m :
    ~ (toLowerCase(m.id) = toLowerCase(modelId) /\ m.service = service))

\* handleModelRemoval(modelId, service), after a long press on a custom
\* item, up to its first await.  The invocation keeps its arguments; beside
\* them `resolved` records the descriptor the active id resolved to when the
\* removal was confirmed (history, the script does not hold it)
handleModelRemoval(item, confirmed) ==
  /\ dropdown.visible /\ PointerReachesPage
  /\ item \in dropdown.items
  /\ isCustomItem(item)
  /\ IF confirmed
     THEN /\ customModels' = removeModel(customModels, item.id, item.service)
          /\ storage' = [storage EXCEPT !.custom_ai_models = JSONstringify(customModels')]
          /\ removals' = Append(removals,
                 [pc |-> "savedModels", id |-> item.id, service |-> item.service,
                  resolved |-> getActiveModelConfig(activeModel, customModels)])
     ELSE UNCHANGED << customModels, storage, removals >>
  /\ UNCHANGED << activeModel, articleData, initPc, initRead, dropdown,
                  overlay, notification, alertShown, runs >>
  /\ UNCHANGED << chatVars, failedRun >>
  /\ UNCHANGED poeVars

\* the end of handleModelRemoval: the dropdown is repopulated if displayed
removalTail ==
  /\ dropdown' = IF dropdown.visible
                  THEN [visible |-> TRUE, items |-> populateDropdown(customModels)]
                  ELSE dropdown
  /\ alertShown' = "removed"

\* handleModelRemoval resumes after the custom models are saved
handleModelRemovalSaved(j) ==
  /\ removals[j].pc = "savedModels"
  /\ IF activeModel = removals[j].id
     THEN /\ activeModel' = DefaultModel
          /\ storage' = [storage EXCEPT !.last_used_model = DefaultModel]
          /\ removals' = [removals EXCEPT ![j].pc = "savedLastUsed"]
          /\ UNCHANGED << dropdown, alertShown >>
     ELSE /\ removals' = RemoveAt(removals, j)
          /\ removalTail
          /\ UNCHANGED << activeModel, storage >>
  /\ UNCHANGED << articleData, customModels, initPc, initRead, overlay,
                  notification, runs >>
  /\ UNCHANGED << chatVars, failedRun >>
  /\ UNCHANGED poeVars

\* handleModelRemoval resumes after 'last_used_model' is saved
handleModelRemovalDone(j) ==
  /\ removals[j].pc = "savedLastUsed"
  /\ removals' = RemoveAt(removals, j)
  /\ removalTail
  /\ UNCHANGED << storage, activeModel, articleData, customModels, initPc,
                  initRead, overlay, notification, runs >>
  /\ UNCHANGED << chatVars, failedRun >>
  /\ UNCHANGED poeVars

\* handleApiKeyReset that saves the key under the other service's name
handleApiKeyResetOtherService(service, newKey) ==
  /\ dropdown.visible /\ PointerReachesPage
  /\ LET keyToSave == trim(newKey)
     IN  /\ storage' = IF service = "openai"
                        THEN [storage EXCEPT !.gemini_api_key = keyToSave]
                        ELSE [storage EXCEPT !.openai_api_key = keyToSave]
         /\ alertShown' = IF keyToSave # "" THEN "key_updated" ELSE "key_cleared"
  /\ UNCHANGED << activeModel, articleData, customModels, initPc, initRead,
                  dropdown, overlay, notification, runs, removals >>
  /\ UNCHANGED << chatVars, failedRun >>
  /\ UNCHANGED poeVars

\* handleApiKeyReset(service), from the Reset Key link of a group header,
\* with what the user types at its prompt (a cancelled prompt does nothing)
handleApiKeyReset(service, newKey) ==
  /\ dropdown.visible /\ PointerReachesPage
  /\ LET keyToSave == trim(newKey)
     IN  /\ storage' = IF service = "openai"
                        THEN [storage EXCEPT !.openai_api_key = keyToSave]
                        ELSE [storage EXCEPT !.gemini_api_key = keyToSave]
         /\ alertShown' = IF keyToSave # "" THEN "key_updated" ELSE "key_cleared"
  /\ UNCHANGED << activeModel, articleData, customModels, initPc, initRead,
                  dropdown, overlay, notification, runs, removals >>
  /\ UNCHANGED << chatVars, failedRun >>
  /\ UNCHANGED poeVars

\* ------------------------------------------------------------------------
\* Chat
\* ------------------------------------------------------------------------
\* 'No response received'
NoResponseReceived == << "No response received" >>

\* parseChatResponse(response, service), on the data of the response
parseChatResponse(data, service) ==
  IF service = "openai"
  THEN IF data.choice.contentType = "string" /\ data.choice.content # <<>>
       THEN data.choice.content
       ELSE NoResponseReceived
  ELSE IF /\ data.candidate.hasParts
          /\ Len(data.candidate.parts) > 0
          /\ data.candidate.parts[1].textType = "string"
          /\ data.candidate.parts[1].text # <<>>
       THEN data.candidate.parts[1].text
       ELSE NoResponseReceived

\* an entry of chatHistory
Turn(role, content) == [role |-> role, content |-> content]

\* the chat input and the Send button in the document are disabled: a
\* pending sendChatMessage disabled them and has not enabled them again
InputDisabled == \E j \in DOMAIN chats : chats[j].attached

\* sendChatMessage(), from the Send button or Enter in the chat input, up
\* to `await getApiKey(...)`.  A pending invocation is [pc, config, apiKey,
\* attached, request]: attached tells whether the input it disabled is
\* still in the document.
sendChatMessage(input) ==
  /\ overlay.exists /\ overlay.chat
  /\ ~ InputDisabled
  /\ Len(chats) < MaxChats
  /\ Len(chatHistory) < MaxTurns
  /\ LET message     == trim(input)
         modelConfig == getActiveModelConfig(activeModel, customModels)
     IN  IF message = "" \/ ~ articleData
         THEN UNCHANGED << chatHistory, chats >>
         ELSE /\ chatHistory' = Append(chatHistory, Turn("user", message))
              /\ chats' = IF modelConfig = <<>>
                           THEN chats
                           ELSE Append(chats,
                                  [pc       |-> "awaitKey",
                                   config   |-> modelConfig[1],
                                   apiKey   |-> getApiKey(storage, modelConfig[1].service),
                                   attached |-> TRUE,
                                   request  |-> <<>>])
  /\ UNCHANGED << storage, activeModel, articleData, customModels, initPc,
                  initRead, dropdown, overlay, notification, alertShown, runs,
                  removals, lastSummary, failedRun >>
  /\ UNCHANGED poeVars

\* sendChatMessage from the return of getApiKey to the call of
\* GM.xmlHttpRequest by sendChatRequest
sendChatMessageGotKey(j) ==
  /\ chats[j].pc = "awaitKey"
  /\ chats' = IF chats[j].apiKey = ""
              THEN RemoveAt(chats, j)
              ELSE [chats EXCEPT
                      ![j].pc = "inFlight",
                      ![j].request = << sendChatRequest(chats[j].config.service, chats[j].apiKey,
                                                        chats[j].config, chatHistory, lastSummary) >>]
  /\ UNCHANGED << storage, activeModel, articleData, customModels, initPc,
                  initRead, dropdown, overlay, notification, alertShown, runs,
                  removals, chatHistory, lastSummary, failedRun >>
  /\ UNCHANGED poeVars

\* onload of sendChatRequest and, when it settles the promise, the rest of
\* sendChatMessage.  When JSON.parse throws inside onload the promise never
\* settles: the invocation stays pending and its `finally` never runs.
chatOnload(j, response) ==
  /\ chats[j].pc = "inFlight"
  /\ LET body == ParseBody(response)
     IN  IF ~ body.ok
         THEN /\ chats' = [chats EXCEPT ![j].pc = "lost"]
              /\ chatHistory' = chatHistory
         ELSE IF response.status < 200 \/ response.status >= 300
         THEN /\ chats' = RemoveAt(chats, j)
              /\ chatHistory' = chatHistory
         ELSE /\ chats' = RemoveAt(chats, j)
              /\ chatHistory' = Append(chatHistory,
                    Turn("assistant", parseChatResponse(body.data, chats[j].config.service)))
  /\ UNCHANGED << storage, activeModel, articleData, customModels, initPc,
                  initRead, dropdown, overlay, notification, alertShown, runs,
                  removals, lastSummary, failedRun >>
  /\ UNCHANGED poeVars

\* onerror, onabort, ontimeout of sendChatRequest: the promise is rejected,
\* the catch block shows the error and `finally` enables the input
chatRejected(j) ==
  /\ chats[j].pc = "inFlight"
  /\ chats' = RemoveAt(chats, j)
  /\ UNCHANGED << storage, activeModel, articleData, customModels, initPc,
                  initRead, dropdown, overlay, notification, alertShown, runs,
                  removals, chatHistory, lastSummary, failedRun >>
  /\ UNCHANGED poeVars

\* ------------------------------------------------------------------------
\* Inputs
\* ------------------------------------------------------------------------
\* what the user may type at the prompts of handleAddModel
ServiceInputs == Services \cup {"claude"}
ModelIdInputs == AddIds
ThinkingInputs == {"yes", "no"}

\* a summary as a provider sends it, and a blank one
RawText == <<"a", "\n", " ", "b">>
BlankText == <<"\n", " ">>

\* a body with the given choices[0]
OpenAIBody(choice, hasError) ==
  [EmptyObject EXCEPT !.choice = choice, !.hasError = hasError,
                      !.errorMessage = IF hasError THEN "overloaded" ELSE Undefined]

\* a body with the given candidates[0]
GeminiBody(candidate, hasError) ==
  [EmptyObject EXCEPT !.candidate = candidate, !.hasError = hasError,
                      !.errorMessage = IF hasError THEN "overloaded" ELSE Undefined]

\* an error body {error: {message}}
ErrorObject(message) ==
  [EmptyObject EXCEPT !.hasError = TRUE, !.errorMessage = message]

\* the responses the transport may deliver to onload
Responses ==
  { \* OpenAI: a summary, an empty content, an empty content next to an error
    Response(200, "OK", TRUE, "json", OpenAIBody(Choice("string", RawText, "stop"), FALSE)),
    Response(200, "OK", TRUE, "json", OpenAIBody(Choice("string", <<>>, "stop"), FALSE)),
    Response(200, "OK", TRUE, "json", OpenAIBody(Choice("string", <<>>, "stop"), TRUE)),
    \* Gemini: a summary, a blank summary, a safety block, no parts, no parts
    \* next to an error
    Response(200, "OK", TRUE, "json",
             GeminiBody(Candidate("STOP", TRUE, << Part("string", RawText) >>, FALSE, <<>>), FALSE)),
    Response(200, "OK", TRUE, "json",
             GeminiBody(Candidate("STOP", TRUE, << Part("string", BlankText) >>, FALSE, <<>>), FALSE)),
    Response(200, "OK", TRUE, "json",
             GeminiBody(Candidate("SAFETY", FALSE, <<>>, TRUE, << <<"X", "HIGH">> >>), FALSE)),
    \* Gemini: a safety block next to text, with two ratings
    Response(200, "OK", TRUE, "json",
             GeminiBody(Candidate("SAFETY", TRUE, << Part("string", RawText) >>, TRUE,
                                  << <<"X", "HIGH">>, <<"Y", "LOW">> >>), FALSE)),
    Response(200, "OK", TRUE, "json",
             GeminiBody(Candidate("STOP", TRUE, <<>>, FALSE, <<>>), FALSE)),
    Response(200, "OK", TRUE, "json",
             GeminiBody(Candidate("STOP", TRUE, <<>>, FALSE, <<>>), TRUE)),
    \* either provider: a JSON error, an error page that is not JSON, a
    \* success status with a body that is not JSON, an empty body
    Response(401, "Unauthorized", TRUE, "json", ErrorObject("invalid key")),
    Response(502, "Bad Gateway", FALSE, "not_json", EmptyObject),
    Response(200, "OK", FALSE, "not_json", EmptyObject),
    Response(500, "Internal Server Error", FALSE, "empty", EmptyObject),
    \* an error status next to choices, and a body {message} without `error`
    Response(429, "Too Many Requests", TRUE, "json",
             OpenAIBody(Choice("string", RawText, "stop"), TRUE)),
    Response(403, "Forbidden", TRUE, "json", [EmptyObject EXCEPT !.message = "forbidden"]) }

\* ------------------------------------------------------------------------
\* Specification
\* ------------------------------------------------------------------------
\* the user summarizes, dismisses and retries
Next ==
  \/ initialize
  \/ initializeResume
  \/ buttonClick
  \/ handleKeyPressAltS
  \/ retryClick
  \/ closeOverlay
  \/ handleKeyPressEscape
  \/ toggleDropdown
  \/ handleOutsideClick
  \/ \E item \in dropdown.items : selectModel(item)
  \/ \E i \in DOMAIN runs : processSummarizationGotKey(i)
  \/ \E i \in DOMAIN runs, response \in Responses : onload(i, response)
  \/ \E i \in DOMAIN runs : onerror(i)
  \/ \E i \in DOMAIN runs : onabort(i)
  \/ \E i \in DOMAIN runs : ontimeout(i)
  \/ \E service \in Services, newKey \in KeyInputs : handleApiKeyReset(service, newKey)

Spec == Init /\ [][Next]_vars

\* no continuation of the script is pending: the read of the API key and
\* the writes of handleModelRemoval return before the user's next gesture
Idle == runs = <<>> /\ removals = <<>>

\* the user edits the custom models and selects models
NextModels ==
  \/ Idle /\ initialize
  \/ Idle /\ initializeResume
  \/ Idle /\ toggleDropdown
  \/ Idle /\ handleOutsideClick
  \/ Idle /\ handleKeyPressEscape
  \/ Idle /\ notificationTimeout
  \/ Idle /\ \E item \in dropdown.items : selectModel(item)
  \/ Idle /\ \E service \in ServiceInputs, modelId \in ModelIdInputs, thinkingInput \in ThinkingInputs :
       handleAddModel(service, modelId, thinkingInput)
  \/ Idle /\ \E item \in dropdown.items, confirmed \in BOOLEAN : handleModelRemoval(item, confirmed)
  \/ \E j \in DOMAIN removals : handleModelRemovalSaved(j)
  \/ \E j \in DOMAIN removals : handleModelRemovalDone(j)
  \/ \E i \in DOMAIN runs : processSummarizationGotKey(i)

SpecModels == InitModels /\ [][NextModels]_vars

\* what the user may type in the chat input
ChatInputs == {" ", "q"}

\* the responses the transport may deliver to a summarization of the chat
\* scenario: a summary of either provider, and a JSON error
SummaryResponses ==
  { Response(200, "OK", TRUE, "json", OpenAIBody(Choice("string", RawText, "stop"), FALSE)),
    Response(200, "OK", TRUE, "json",
             GeminiBody(Candidate("STOP", TRUE, << Part("string", RawText) >>, FALSE, <<>>), FALSE)),
    Response(401, "Unauthorized", TRUE, "json", ErrorObject("invalid key")) }

\* the responses the transport may deliver to a chat request
ChatResponses == SummaryResponses

\* custom models stored by earlier pages: Gemini models flagged as
\* thinking, as not thinking, and stored before the flag existed, and an
\* OpenAI model
StoredCustomModels ==
  << CustomModel("my-model", "gemini", "true"),
     CustomModel("my-pro", "gemini", "false"),
     CustomModel("GPT-4.1", "gemini", Undefined),
     CustomModel("O4-custom", "openai", Undefined) >>

\* the last used model the page may find
StoredLastUsed ==
  { Undefined, "o4-mini", "gpt-4.1", "gemini-pro-latest",
    "my-model", "my-pro", "GPT-4.1", "O4-custom" }

\* the storage of a user who has stored both API keys and custom models
StorageWithKeys(lastUsed) ==
  [custom_ai_models |-> JSONstringify(StoredCustomModels),
   last_used_model  |-> lastUsed,
   openai_api_key   |-> "sk-1",
   gemini_api_key   |-> "sk-1"]

\* a page load of a user who has stored both API keys, custom models and
\* any last used model
InitChat ==
  /\ storage \in { StorageWithKeys(lastUsed) : lastUsed \in StoredLastUsed }
  /\ FreshPage

\* no invocation waits for its read of the API key: the read returns before
\* the user's next gesture
KeysRead ==
  /\ \A i \in DOMAIN runs : runs[i].pc # "awaitKey"
  /\ \A j \in DOMAIN chats : chats[j].pc # "awaitKey"

\* no summarization and no chat turn is pending
Quiet == runs = <<>> /\ chats = <<>>

\* a patient user: summarizes with Alt+S, chats about the summary, and waits
\* for each answer before the next gesture
NextChat ==
  \/ initialize
  \/ initializeResume
  \/ Quiet /\ handleKeyPressAltS
  \/ Quiet /\ closeOverlay
  \/ Quiet /\ \E input \in ChatInputs : sendChatMessage(input)
  \/ \E i \in DOMAIN runs : processSummarizationGotKey(i)
  \/ \E i \in DOMAIN runs, response \in SummaryResponses : onload(i, response)
  \/ \E i \in DOMAIN runs : ontimeout(i)
  \/ \E j \in DOMAIN chats : sendChatMessageGotKey(j)
  \/ \E j \in DOMAIN chats, response \in ChatResponses : chatOnload(j, response)
  \/ \E j \in DOMAIN chats : chatRejected(j)

SpecChat == InitChat /\ [][NextChat]_vars

\* the last used model of the impatient user: a custom Gemini model
RaceLastUsed == { "my-model" }

\* the responses the transport may deliver to a chat request of the
\* impatient user: also an error page that is not JSON
ChatRaceResponses ==
  ChatResponses \cup { Response(502, "Bad Gateway", FALSE, "not_json", EmptyObject) }

InitChatRace ==
  /\ storage \in { StorageWithKeys(lastUsed) : lastUsed \in RaceLastUsed }
  /\ FreshPage

\* an impatient user: summarizes again, closes the overlay and sends chat
\* turns while earlier requests are still in flight
NextChatRace ==
  \/ initialize
  \/ initializeResume
  \/ KeysRead /\ runs = <<>> /\ handleKeyPressAltS
  \/ KeysRead /\ closeOverlay
  \/ KeysRead /\ \E input \in ChatInputs : sendChatMessage(input)
  \/ \E i \in DOMAIN runs : processSummarizationGotKey(i)
  \/ \E i \in DOMAIN runs, response \in SummaryResponses : onload(i, response)
  \/ \E i \in DOMAIN runs : ontimeout(i)
  \/ \E j \in DOMAIN chats : sendChatMessageGotKey(j)
  \/ \E j \in DOMAIN chats, response \in ChatRaceResponses : chatOnload(j, response)
  \/ \E j \in DOMAIN chats : chatRejected(j)

SpecChatRace == InitChatRace /\ [][NextChatRace]_vars

\* the last used model of a user who acts before it is read: a custom model
\* whose entry is gone from the stored list, and a model of the provider
\* whose key is not stored
ResumeLastUsed == { "my-model", "gpt-4.1" }

\* a page load of a user who has stored the Gemini key only and no custom
\* model
InitResume ==
  /\ storage \in { [custom_ai_models |-> NoText,
                     last_used_model  |-> lastUsed,
                     openai_api_key   |-> Undefined,
                     gemini_api_key   |-> "sk-1"] : lastUsed \in ResumeLastUsed }
  /\ FreshPage

\* the button and the dropdown are usable while initialize still waits for
\* the last used model
NextResume ==
  \/ initialize
  \/ initializeResume
  \/ buttonClick
  \/ handleKeyPressAltS
  \/ retryClick
  \/ closeOverlay
  \/ toggleDropdown
  \/ \E item \in dropdown.items : selectModel(item)
  \/ notificationTimeout
  \/ \E i \in DOMAIN runs : processSummarizationGotKey(i)
  \/ \E i \in DOMAIN runs, response \in SummaryResponses : onload(i, response)
  \/ \E i \in DOMAIN runs : ontimeout(i)

SpecResume == InitResume /\ [][NextResume]_vars

\* a page load of a user who has stored the Gemini key, perhaps an OpenAI
\* key with blanks around it, and perhaps a last used OpenAI model
InitSerial ==
  /\ storage \in { [custom_ai_models |-> NoText,
                     last_used_model  |-> lastUsed,
                     openai_api_key   |-> openaiKey,
                     gemini_api_key   |-> "sk-1"] :
                     lastUsed \in {Undefined, "gpt-4.1"},
                     openaiKey \in {Undefined, " sk-1 "} }
  /\ FreshPage

\* a user who does one thing at a time: summarizes with Alt+S, waits for the
\* outcome, closes the overlay, and resets keys from the dropdown
NextSerial ==
  \/ initialize
  \/ initializeResume
  \/ runs = <<>> /\ handleKeyPressAltS
  \/ runs = <<>> /\ closeOverlay
  \/ runs = <<>> /\ toggleDropdown
  \/ runs = <<>> /\ \E service \in Services, newKey \in KeyInputs :
                       handleApiKeyReset(service, newKey)
  \/ \E i \in DOMAIN runs : processSummarizationGotKey(i)
  \/ \E i \in DOMAIN runs, response \in Responses : onload(i, response)
  \/ \E i \in DOMAIN runs : onerror(i)
  \/ \E i \in DOMAIN runs : onabort(i)
  \/ \E i \in DOMAIN runs : ontimeout(i)

SpecSerial == InitSerial /\ [][NextSerial]_vars

\* ------------------------------------------------------------------
\* Poe Notifier (the userscript of README.md)
\* ------------------------------------------------------------------

\* the times the page shows "Waiting..." in one scenario
MaxWaits == 2

\* const ORANGE_ICON_URL, a data: URI
ORANGE_ICON_URL == "data:image/svg+xml,orange circle"

\* what link.href reads after url was assigned to it: the URL resolved
\* against the document, so that a path becomes an absolute URL
href(url) ==
  IF url = "/favicon.ico" THEN PoeFavicon ELSE url

\* findOrCreateFavicon(): the link of the document, or a new one that points
\* to /favicon.ico; what originalFaviconUrl becomes
findOrCreateFavicon(head) ==
  IF head # <<>>
  THEN [head |-> head, original |-> head[1]]
  ELSE [head |-> << href("/favicon.ico") >>, original |-> "/favicon.ico"]

\* changeFavicon(newIconUrl) on the link the script holds: the href is
\* assigned only when it differs
changeFavicon(head, newIconUrl) ==
  IF head[1] # newIconUrl THEN << href(newIconUrl) >> ELSE head

\* sendPoeNotification(): clears the pending notification timer and arms a
\* new one
sendPoeNotification ==
  /\ notificationDebounceTimer' = TRUE
  /\ cancelled' = IF notificationDebounceTimer THEN cancelled + 1 ELSE cancelled

\* checkWaitingStatus() without the clearTimeout of its first branch
checkWaitingStatusNoClear(head) ==
  IF pageWaiting /\ ~ isCurrentlyWaiting
  THEN /\ isCurrentlyWaiting' = TRUE
       /\ headLink' = changeFavicon(head, ORANGE_ICON_URL)
       /\ UNCHANGED << notificationDebounceTimer, cancelled, finished >>
  ELSE IF ~ pageWaiting /\ isCurrentlyWaiting
  THEN /\ isCurrentlyWaiting' = FALSE
       /\ headLink' = changeFavicon(head, ORANGE_ICON_URL)
       /\ sendPoeNotification
       /\ finished' = finished + 1
  ELSE /\ headLink' = head
       /\ UNCHANGED << isCurrentlyWaiting, notificationDebounceTimer,
                       cancelled, finished >>

\* checkWaitingStatus(), on the link head
checkWaitingStatus(head) ==
  IF pageWaiting /\ ~ isCurrentlyWaiting
  THEN /\ isCurrentlyWaiting' = TRUE
       /\ headLink' = changeFavicon(head, ORANGE_ICON_URL)
       /\ notificationDebounceTimer' = FALSE
       /\ cancelled' = IF notificationDebounceTimer
                       THEN cancelled + 1 ELSE cancelled
       /\ UNCHANGED finished
  ELSE IF ~ pageWaiting /\ isCurrentlyWaiting
  THEN /\ isCurrentlyWaiting' = FALSE
       /\ headLink' = changeFavicon(head, ORANGE_ICON_URL)
       /\ sendPoeNotification
       /\ finished' = finished + 1
  ELSE /\ headLink' = head
       /\ UNCHANGED << isCurrentlyWaiting, notificationDebounceTimer,
                       cancelled, finished >>

\* the body of the script, run at document-idle: findOrCreateFavicon(), the
\* focus listener, the MutationObserver, the initial checkWaitingStatus()
startPoeNotifier ==
  /\ poePc = "start"
  /\ poePc' = "monitoring"
  /\ faviconLinkElement' = "link"
  /\ originalFaviconUrl' = findOrCreateFavicon(headLink).original
  /\ checkWaitingStatus(findOrCreateFavicon(headLink).head)
  /\ UNCHANGED << pageWaiting, checkDebounceTimer, notifications, waits >>
  /\ UNCHANGED summarizeVars

\* debouncedCheckWaitingStatus(): clearTimeout, then setTimeout of 250 ms
debouncedCheckWaitingStatus ==
  checkDebounceTimer' = TRUE

\* the page changes its text, "Waiting..." appearing or disappearing or
\* neither; the MutationObserver callback runs
MutationObserved(waitingNow) ==
  /\ poePc = "monitoring"
  /\ waitingNow /\ ~ pageWaiting => waits < MaxWaits
  /\ pageWaiting' = waitingNow
  /\ waits' = IF waitingNow /\ ~ pageWaiting THEN waits + 1 ELSE waits
  /\ debouncedCheckWaitingStatus
  /\ UNCHANGED << poePc, headLink, faviconLinkElement, originalFaviconUrl,
                  isCurrentlyWaiting, notificationDebounceTimer,
                  notifications, finished, cancelled >>
  /\ UNCHANGED summarizeVars

\* the 250 ms timer fires: checkWaitingStatus()
checkDebounceTimeout ==
  /\ checkDebounceTimer
  /\ checkDebounceTimer' = FALSE
  /\ checkWaitingStatus(headLink)
  /\ UNCHANGED << poePc, pageWaiting, faviconLinkElement, originalFaviconUrl,
                  notifications, waits >>
  /\ UNCHANGED summarizeVars

\* the 300 ms timer fires: GM_notification(...), which the header grants
notificationDebounceTimeout ==
  /\ notificationDebounceTimer
  /\ notificationDebounceTimer' = FALSE
  /\ notifications' = notifications + 1
  /\ UNCHANGED << poePc, pageWaiting, headLink, faviconLinkElement,
                  originalFaviconUrl, isCurrentlyWaiting, checkDebounceTimer,
                  waits, finished, cancelled >>
  /\ UNCHANGED summarizeVars

\* restoreOriginalFaviconOnFocus() that restores in the waiting state too
restoreOriginalFaviconOnFocusAlways ==
  /\ poePc = "monitoring"
  /\ LET found == IF faviconLinkElement = "null" \/ originalFaviconUrl = ""
                  THEN findOrCreateFavicon(headLink)
                  ELSE [head |-> headLink, original |-> originalFaviconUrl]
     IN /\ faviconLinkElement' = "link"
        /\ originalFaviconUrl' = found.original
        /\ headLink' = IF found.head[1] # found.original
                       THEN changeFavicon(found.head, found.original)
                       ELSE found.head
  /\ UNCHANGED << poePc, pageWaiting, isCurrentlyWaiting, checkDebounceTimer,
                  notificationDebounceTimer, notifications, waits, finished,
                  cancelled >>
  /\ UNCHANGED summarizeVars

\* the window gets the focus: restoreOriginalFaviconOnFocus()
restoreOriginalFaviconOnFocus ==
  /\ poePc = "monitoring"
  /\ LET found == IF faviconLinkElement = "null" \/ originalFaviconUrl = ""
                  THEN findOrCreateFavicon(headLink)
                  ELSE [head |-> headLink, original |-> originalFaviconUrl]
     IN /\ faviconLinkElement' = "link"
        /\ originalFaviconUrl' = found.original
        /\ headLink' = IF ~ isCurrentlyWaiting
                       THEN IF found.head[1] # found.original
                            THEN changeFavicon(found.head, found.original)
                            ELSE found.head
                       ELSE changeFavicon(found.head, ORANGE_ICON_URL)
  /\ UNCHANGED << poePc, pageWaiting, isCurrentlyWaiting, checkDebounceTimer,
                  notificationDebounceTimer, notifications, waits, finished,
                  cancelled >>
  /\ UNCHANGED summarizeVars

\* a tab of poe.com at document-idle, with the favicon link of the site or
\* without one, "Waiting..." shown or not
InitPoe ==
  /\ storage = [custom_ai_models |-> NoText, last_used_model |-> Undefined,
                openai_api_key |-> Undefined, gemini_api_key |-> Undefined]
  /\ activeModel = DefaultModel
  /\ articleData = FALSE
  /\ customModels = <<>>
  /\ initPc = "start"
  /\ initRead = Undefined
  /\ dropdown = HiddenDropdown
  /\ overlay = NoOverlay
  /\ notification = "none"
  /\ alertShown = "none"
  /\ runs = <<>>
  /\ removals = <<>>
  /\ chatHistory = <<>>
  /\ lastSummary = NoBody
  /\ chats = <<>>
  /\ failedRun = <<>>
  /\ PoeGlobals
  /\ pageWaiting \in BOOLEAN
  /\ headLink \in { <<>>, << PoeFavicon >> }

NextPoe ==
  \/ startPoeNotifier
  \/ \E waitingNow \in BOOLEAN : MutationObserved(waitingNow)
  \/ checkDebounceTimeout
  \/ notificationDebounceTimeout
  \/ restoreOriginalFaviconOnFocus

SpecPoe == InitPoe /\ [][NextPoe]_vars

\* the timers of the event loop fire
SpecPoeFair ==
  /\ InitPoe
  /\ [][NextPoe]_vars
  /\ WF_vars(checkDebounceTimeout)
  /\ WF_vars(notificationDebounceTimeout)

\* ------------------------------------------------------------------------
\* Properties
\* ------------------------------------------------------------------------
\* the pending runs whose GM.xmlHttpRequest is outstanding
InFlight == {i \in DOMAIN runs : runs[i].pc = "inFlight"}

\* the transport hands run i one of its outcomes
Delivery(i) ==
  \/ \E response \in Responses : onload(i, response)
  \/ onerror(i)
  \/ onabort(i)
  \/ ontimeout(i)

\* a status outside 200..299
Non2xx(response) == response.status < 200 \/ response.status >= 300

\* a body without usable summary text for the service: no choices or
\* candidates, no or empty parts, no or empty content
NoUsableText(data, service) ==
  IF service = "openai"
  THEN \/ ~ data.choice.present
       \/ data.choice.contentType # "string"
       \/ data.choice.content = <<>>
  ELSE \/ ~ data.candidate.present
       \/ ~ data.candidate.hasParts
       \/ data.candidate.parts = <<>>
       \/ data.candidate.parts[1].textType # "string"
       \/ data.candidate.parts[1].text = <<>>

\* C1: single-flight: at no time are two summarization requests
\* outstanding at once, whatever triggers the user fires.
C1_SingleFlight == Cardinality(InFlight) <= 1

\* C2: once the overlay has been dismissed while a request is in flight,
\* whatever the request delivers is discarded: there is no overlay after
\* the delivery.
C2_LateResponseDiscarded ==
  [][\A i \in DOMAIN runs :
       (~ overlay.exists /\ Delivery(i)) => ~ overlay'.exists]_vars

\* C3: every transport outcome that reaches a run whose overlay is still
\* open replaces the loading indicator by the summary or by an error
\* message, so that no run stays in the loading state.
C3_LoadingIsReplaced ==
  [][\A i \in DOMAIN runs :
       (overlay.exists /\ overlay.body.kind = "loading" /\ Delivery(i))
         => overlay'.body.kind \in {"summary", "error"}]_vars

\* C4: a response with a non-2xx status whose body is not JSON ends the run
\* with an error message that carries the HTTP status text.
C4_UnparseableErrorBody ==
  [][\A i \in DOMAIN runs, response \in Responses :
       (Non2xx(response) /\ ~ ParseBody(response).ok /\ onload(i, response))
         => /\ overlay'.exists
            /\ overlay'.body.kind = "error"
            /\ overlay'.body.details = response.statusText]_vars

\* C5: a 2xx response without usable summary text, with or without an
\* `error` field, is shown as an error and never as a summary.
C5_EmptyResponseIsFailure ==
  [][\A i \in DOMAIN runs, response \in Responses :
       (/\ ~ Non2xx(response)
        /\ ParseBody(response).ok
        /\ NoUsableText(ParseBody(response).data, runs[i].config.service)
        /\ overlay.exists
        /\ onload(i, response))
         => overlay'.body.kind = "error"]_vars

\* the descriptors in the order the catalog declares them: the built-ins
\* of each provider, then the custom models
AllDescriptors(custom) ==
  LET builtins(k) == [i \in DOMAIN MODEL_GROUPS[ServiceKeys[k]].models |->
                        BuiltinConfig(MODEL_GROUPS[ServiceKeys[k]].models[i], ServiceKeys[k])]
  IN  builtins(1) \o builtins(2) \o [i \in DOMAIN custom |-> CustomConfig(custom[i])]

\* the first descriptor of a sequence that Match accepts, <<>> if none
FirstDescriptor(all, Match(_)) ==
  LET hits == {k \in DOMAIN all : Match(all[k])}
  IN  IF hits = {} THEN <<>>
      ELSE << all[CHOOSE k \in hits : \A h \in hits : k <= h] >>

\* the active id resolves
Resolves == getActiveModelConfig(activeModel, customModels) # <<>>

\* C6: in every state after initialization the active model id resolves
\* to a descriptor.
C6_ActiveModelResolves == initPc = "done" => Resolves

Builtins ==
  UNION {{BuiltinConfig(MODEL_GROUPS[service].models[i], service) :
            i \in DOMAIN MODEL_GROUPS[service].models} : service \in Services}

UniquePerProvider(custom) ==
  /\ \A i, j \in DOMAIN custom :
       (i # j /\ custom[i].service = custom[j].service)
         => toLowerCase(custom[i].id) # toLowerCase(custom[j].id)
  /\ \A i \in DOMAIN custom : \A b \in Builtins :
       b.service = custom[i].service
         => toLowerCase(b.id) # toLowerCase(custom[i].id)

\* C9: in every state after the load of a stored text that passes
\* validation, and after any adds and removes, ids are unique per provider
\* ignoring case.
C9_UniqueIds == UniquePerProvider(customModels)

\* C9 as amended: once the loaded list has ids unique per provider ignoring
\* case, every add and remove keeps them unique.
C9_UniqueIdsPreserved ==
  [][(initPc # "start" /\ UniquePerProvider(customModels))
       => UniquePerProvider(customModels')]_vars

\* a custom model has been added to a list that holds another, and the ids
\* are unique
C9_Witness ==
  /\ Len(customModels) = 2
  /\ alertShown = "added"
  /\ UniquePerProvider(customModels)

\* the id collides, ignoring case, with a built-in or a custom model of
\* the provider
Collides(service, modelId) ==
  \/ \E b \in Builtins :
       b.service = service /\ toLowerCase(b.id) = toLowerCase(modelId)
  \/ \E c \in Range(customModels) :
       c.service = service /\ toLowerCase(c.id) = toLowerCase(modelId)

\* C10: an add whose id collides, ignoring case, with a built-in or a
\* custom model of the provider is rejected and changes neither the custom
\* list, nor the storage (the custom model text and the last used id), nor
\* the active model id.
C10_DuplicateAddRejected ==
  [][\A service \in Services, modelId \in ModelIdInputs, thinkingInput \in ThinkingInputs :
       (Collides(service, modelId) /\ handleAddModel(service, modelId, thinkingInput))
         => /\ alertShown' = "already_exists"
            /\ customModels' = customModels
            /\ storage' = storage
            /\ activeModel' = activeModel]_vars

\* an add has been rejected while the list holds a custom model
C10_Witness ==
  /\ alertShown = "already_exists"
  /\ customModels # <<>>

\* a stored value that is not valid JSON, not an array, or an array with a
\* null or non-object element, an element without id or service, or a
\* Gemini element whose supportsThinking is present and not boolean
Malformed(text) ==
  \/ text.json \in {"syntax_error", "object"}
  \/ /\ text.json = "array"
     /\ \E i \in DOMAIN text.elems :
          LET m == text.elems[i]
          IN  \/ m.type # "object"
              \/ m.id \in {Undefined, ""}
              \/ m.service \in {Undefined, ""}
              \/ m.service = "gemini" /\ m.supportsThinking = "string"

\* C11: the load of a stored value that is not valid JSON, not an array,
\* or an array with a malformed element returns the empty list and leaves
\* the empty array in storage; it never returns part of the stored elements.
C11_CorruptStoreRecovery ==
  [][(initialize /\ Malformed(storage.custom_ai_models))
       => /\ customModels' = <<>>
          /\ storage'.custom_ai_models = EmptyArrayText]_vars

\* a load has just replaced a stored value by the empty array
C11_Witness ==
  /\ initPc = "awaitLastUsed"
  /\ alertShown = "none"
  /\ customModels = <<>>
  /\ storage.custom_ai_models = EmptyArrayText

\* the descriptor the active id resolved to when removal r was confirmed is
\* one of those it removed
RemovedActive(r) ==
  /\ r.resolved # <<>>
  /\ r.resolved[1].isCustom
  /\ toLowerCase(r.resolved[1].id) = toLowerCase(r.id)
  /\ r.resolved[1].service = r.service

\* C12: a confirmed remove deletes exactly the custom entries with that id,
\* ignoring case, and that provider, and persists the list; the active id
\* and the persisted last used id become the default id if the removed
\* descriptor was the one the active id resolved to, and do not change
\* otherwise.
C12_RemoveFrame ==
  [][/\ \A item \in dropdown.items :
          handleModelRemoval(item, TRUE)
            => /\ \A m \in Range(customModels) :
                    (m \in Range(customModels'))
                      <=> ~ (toLowerCase(m.id) = toLowerCase(item.id) /\ m.service = item.service)
               /\ Range(customModels') \subseteq Range(customModels)
               /\ storage'.custom_ai_models = JSONstringify(customModels')
     /\ \A j \in DOMAIN removals :
          handleModelRemovalSaved(j)
            => IF RemovedActive(removals[j])
               THEN /\ activeModel' = DefaultModel
                    /\ storage'.last_used_model = DefaultModel
               ELSE /\ activeModel' = activeModel
                    /\ storage'.last_used_model = storage.last_used_model]_vars

\* the ids of the built-ins of a service
BuiltinIds(service) == Range(Ids(MODEL_GROUPS[service].models))

\* the custom models of a service, in list order
CustomOf(custom, service) == SelectSeq(custom, LAMBDA m : m.service = service)

\* a sequence has no two entries equal ignoring case and is in the order
\* of localeCompare
SortedWithoutDuplicates(ids) ==
  \A i, j \in DOMAIN ids :
    i < j => /\ toLowerCase(ids[i]) # toLowerCase(ids[j])
             /\ localeCompare(ids[i], ids[j]) < 0

\* the lists that hold the entries of a list in any order
Reorderings(s) ==
  {t \in [DOMAIN s -> Range(s)] :
     \E f \in [DOMAIN s -> DOMAIN s] :
       /\ \A i, j \in DOMAIN s : i # j => f[i] # f[j]
       /\ \A i \in DOMAIN s : t[i] = s[f[i]]}

\* C13: the list for display holds, per provider, every built-in and every
\* custom model of the provider whose id differs, ignoring case, from all
\* built-in ids, and nothing else; no two entries are equal ignoring case;
\* it is ordered by id; and it is the same for every order of the custom
\* list.
C13_ListForDisplay ==
  \A service \in Services :
    LET shown == allModelObjects(customModels, service)
        mine  == CustomOf(customModels, service)
    IN  /\ Range(shown) =
             BuiltinIds(service) \cup
               {mine[i].id : i \in {k \in DOMAIN mine :
                  \A b \in BuiltinIds(service) :
                    toLowerCase(b) # toLowerCase(mine[k].id)}}
        /\ SortedWithoutDuplicates(shown)
        /\ \A other \in Reorderings(customModels) :
             allModelObjects(other, service) = shown

\* C13 as amended: the list for display holds, per provider, every built-in
\* and, of the custom models of the provider whose id differs, ignoring
\* case, from all built-in ids, the first of each id ignoring case, and
\* nothing else; no two entries are equal ignoring case; it is ordered by
\* id; and while the custom ids are unique per provider ignoring case it is
\* the same for every order of the custom list.
C13_ListForDisplayFirstKept ==
  \A service \in Services :
    LET shown == allModelObjects(customModels, service)
        mine  == CustomOf(customModels, service)
    IN  /\ Range(shown) =
             BuiltinIds(service) \cup
               {mine[i].id : i \in {k \in DOMAIN mine :
                  /\ \A b \in BuiltinIds(service) :
                       toLowerCase(b) # toLowerCase(mine[k].id)
                  /\ \A h \in 1 .. (k - 1) :
                       toLowerCase(mine[h].id) # toLowerCase(mine[k].id)}}
        /\ SortedWithoutDuplicates(shown)
        /\ UniquePerProvider(customModels)
             => \A other \in Reorderings(customModels) :
                  allModelObjects(other, service) = shown

\* the dropdown is displayed and leaves out a custom model whose id a
\* built-in of its provider has, ignoring case, next to one it shows
C13_Witness ==
  /\ dropdown.visible
  /\ \E i, j \in DOMAIN customModels :
       /\ existsInStandard(customModels[i].service, customModels[i].id)
       /\ [id |-> customModels[i].id, service |-> customModels[i].service] \notin dropdown.items
       /\ [id |-> customModels[j].id, service |-> customModels[j].service] \in dropdown.items

\* the requests that are outstanding, each with the descriptor it was built
\* for: those of the summarization runs and those of the chat turns
SentSummaries == { [config |-> runs[i].config, request |-> runs[i].request[1]] :
                     i \in {k \in DOMAIN runs : runs[k].request # <<>>} }

SentChats == { [config |-> chats[j].config, request |-> chats[j].request[1]] :
                 j \in {k \in DOMAIN chats : chats[k].request # <<>>} }

Sent == SentSummaries \cup SentChats

\* the generation parameters a request body carries
GenerationParams(request) ==
  IF request.service = "openai" THEN request.body.params
  ELSE request.body.generationConfig

\* the provider defaults overridden key by key by the descriptor's params
Overridden(config) ==
  LET defaults == MODEL_GROUPS[config.service].defaultParams
      own      == IF config.params = NoParams THEN <<>> ELSE config.params[1]
  IN  [k \in DOMAIN defaults \cup DOMAIN own |->
         IF k \in DOMAIN own THEN own[k] ELSE defaults[k]]

\* a custom Gemini descriptor whose supportsThinking is not true
UnflaggedCustomGemini(config) ==
  config.isCustom /\ config.service = "gemini" /\ config.supportsThinking # "true"

\* C14: the generation parameters of every request equal the provider
\* defaults overridden key by key by descriptor.params; a descriptor without
\* params yields exactly the provider defaults and nothing else.
C14_ParamsAreDefaultsOverridden ==
  \A s \in Sent : GenerationParams(s.request) = Overridden(s.config)

\* C14, amended: the generation parameters of every request equal the
\* provider defaults overridden key by key by descriptor.params, except
\* that the request of a custom Gemini descriptor not flagged as thinking
\* carries thinkingConfig {thinkingBudget: 0} next to the defaults.
C14_ParamsAreDefaultsOverriddenExceptUnflagged ==
  \A s \in Sent :
    GenerationParams(s.request) =
      IF UnflaggedCustomGemini(s.config)
      THEN [k \in DOMAIN Overridden(s.config) \cup {"thinkingConfig"} |->
              IF k = "thinkingConfig" THEN ThinkingDisabled ELSE Overridden(s.config)[k]]
      ELSE Overridden(s.config)

\* a summarization request of o4-mini is outstanding: its params override
\* the default max_completion_tokens and add reasoning_effort
C14_Witness ==
  \E s \in SentSummaries :
    /\ s.config.id = "o4-mini"
    /\ GenerationParams(s.request) =
         [max_completion_tokens |-> HIGH_MAX_TOKENS, reasoning_effort |-> "low"]

\* a custom Gemini descriptor
CustomGemini(config) == config.isCustom /\ config.service = "gemini"

\* C15: the generationConfig of a request for a custom Gemini descriptor
\* carries thinkingConfig {thinkingBudget: 0} exactly when supportsThinking
\* is not true and no thinkingConfig when it is true, in summarization and
\* in chat requests alike; the parameters of built-in descriptors and of
\* OpenAI descriptors are the merged ones, unaltered.
C15_CustomGeminiThinking ==
  \A s \in Sent :
    LET generationParams == GenerationParams(s.request)
    IN  IF CustomGemini(s.config)
        THEN /\ "thinkingConfig" \in DOMAIN generationParams
                  <=> s.config.supportsThinking # "true"
             /\ "thinkingConfig" \in DOMAIN generationParams
                  => generationParams.thinkingConfig = ThinkingDisabled
        ELSE generationParams = Overridden(s.config)

\* a chat request is outstanding for a custom Gemini model stored without
\* the flag, and carries the disabled thinkingConfig
C15_Witness ==
  \E s \in SentChats :
    /\ CustomGemini(s.config)
    /\ s.config.supportsThinking = Undefined
    /\ GenerationParams(s.request).thinkingConfig = ThinkingDisabled

\* the descriptor uses extended reasoning: a custom one is flagged as
\* supporting thinking, a built-in one has params that do not disable it
UsesReasoning(config) ==
  IF config.isCustom
  THEN config.supportsThinking = "true"
  ELSE config.params # NoParams /\ "thinkingConfig" \notin DOMAIN config.params[1]

ReasoningId(config) == includesPro(toLowerCase(config.id)) \/ isO3orO4(config.id)

SummarizationStarts ==
  \E i \in DOMAIN runs :
    /\ runs[i].pc = "awaitKey"
    /\ i \in DOMAIN runs'
    /\ runs'[i].pc = "inFlight"

\* C17: the chat turn log is empty whenever a summarization starts.
C17_HistoryResetOnStart ==
  [][SummarizationStarts => chatHistory' = <<>>]_vars

\* the roles of `contents` alternate strictly, from 'user' to the new
\* 'user' turn at the end
Alternates(contents) ==
  /\ contents[1].role = "user"
  /\ contents[Len(contents)].role = "user"
  /\ \A k \in 1 .. Len(contents) - 1 : contents[k].role # contents[k + 1].role

\* C18: the body of every Gemini chat request has strictly alternating
\* roles, ending with the new user turn.
C18_GeminiRolesAlternate ==
  \A s \in SentChats :
    s.request.service = "gemini" => Alternates(s.request.body.contents)

\* the chat turns whose request is outstanding
ChatsInFlight == {j \in DOMAIN chats : chats[j].pc = "inFlight"}

\* C19: at most one chat follow-up request is outstanding at any time.
C19_SingleChatInFlight == Cardinality(ChatsInFlight) <= 1

\* C20: activating Try Again starts a run for the model descriptor of the
\* failed attempt, whatever happened between the failure and the retry.
C20_RetrySameModel ==
  [][retryClick => /\ Len(runs') = Len(runs) + 1
                   /\ << runs'[Len(runs')].config >> = failedRun]_vars

\* this step is a run that ends in ModelConfigNotFound: a trigger finds an
\* article and no descriptor for the active model
EndsInModelConfigNotFound ==
  /\ buttonClick \/ handleKeyPressAltS \/ retryClick
  /\ articleData
  /\ getActiveModelConfig(activeModel, customModels) = <<>>

\* this step is a run that ends in CredentialMissing: its read of the API
\* key returns nothing
EndsInCredentialMissing ==
  \E i \in DOMAIN runs : runs[i].apiKey = "" /\ processSummarizationGotKey(i)

\* C21: a run that ends in ModelConfigNotFound or CredentialMissing sends no
\* request and leaves no Try Again button on the page.
C21_NoRetryWithoutModelOrKey ==
  [][(EndsInModelConfigNotFound \/ EndsInCredentialMissing)
       => /\ SentSummaries' \subseteq SentSummaries
          /\ ~ (overlay'.exists /\ overlay'.retry)]_vars

\* the other provider
Other(service) == IF service = "openai" THEN "gemini" ELSE "openai"

\* what get returns after set(provider, v): v without the blanks around it,
\* or nothing ("") when that is empty
Stored(v) ==
  CASE v = " sk-1 " -> "sk-1"
    [] v = " "      -> ""
    [] v = ""       -> ""

ProviderMessage(response) ==
  LET data == IF response.parsed \/ response.text = "json"
              THEN response.data ELSE EmptyObject
  IN  IF data.errorMessage \notin {Undefined, ""} THEN data.errorMessage
      ELSE IF data.message \notin {Undefined, ""} THEN data.message
      ELSE response.statusText

\* C23: every response with a non-2xx status ends the run in an error that
\* carries the provider-supplied message, whatever else the body holds, and
\* is never rendered as a summary.
C23_Non2xxIsFailure ==
  [][\A i \in DOMAIN runs, response \in Responses :
       (Non2xx(response) /\ onload(i, response))
         => /\ overlay'.exists
            /\ overlay'.body.kind = "error"
            /\ overlay'.body.details = ProviderMessage(response)]_vars

\* the message holds 'category: probability' of the rating
Lists(message, rating) ==
  \E k \in 1 .. Len(message) - 2 :
    /\ message[k] = rating[1]
    /\ message[k + 1] = ": "
    /\ message[k + 2] = rating[2]

\* a 2xx response to a Gemini run whose first candidate has finishReason
\* SAFETY
SafetyBlock(i, response) ==
  /\ runs[i].config.service = "gemini"
  /\ ~ Non2xx(response)
  /\ ParseBody(response).ok
  /\ ParseBody(response).data.candidate.finishReason = "SAFETY"

\* C24: a 2xx Gemini response whose first candidate has finishReason SAFETY
\* ends the run in an error, even when the candidate carries text, and the
\* message lists every safety rating as 'category: probability'.
C24_SafetyIsFailure ==
  [][\A i \in DOMAIN runs, response \in Responses :
       (SafetyBlock(i, response) /\ onload(i, response))
         => /\ overlay'.exists
            /\ overlay'.body.kind = "error"
            /\ overlay'.body.err = "SafetyBlocked"
            /\ \A rating \in Range(ParseBody(response).data.candidate.safetyRatings) :
                 Lists(overlay'.body.text, rating)]_vars

\* the overlay shows the safety error of a candidate that carried text and
\* two ratings
C24_Witness ==
  /\ overlay.exists
  /\ overlay.body.err = "SafetyBlocked"
  /\ overlay.body.text = << "X", ": ", "HIGH", ", ", "Y", ": ", "LOW" >>

\* ------------------------------------------------------------------
\* Poe Notifier: notifications and the favicon
\* ------------------------------------------------------------------

\* the tab shows the orange circle
Orange == headLink = << ORANGE_ICON_URL >>

\* the notifications still to be sent: 1 while the 300 ms timer is pending
Pending == IF notificationDebounceTimer THEN 1 ELSE 0

\* every detected end of waiting is sent, cancelled or pending, once
Accounted == finished = notifications + cancelled + Pending

\* a notification is cancelled only by waiting being detected again
CancelledByWaiting ==
  cancelled' # cancelled => ~ isCurrentlyWaiting /\ isCurrentlyWaiting'

\* once waiting was detected the favicon stays orange until the window is
\* focused while the script is not waiting
OrangeKept ==
  /\ ~ isCurrentlyWaiting /\ isCurrentlyWaiting' => Orange'
  /\ Orange /\ ~ (restoreOriginalFaviconOnFocus /\ ~ isCurrentlyWaiting)
       => Orange'

Original == headLink = << href(originalFaviconUrl) >>

\* a focus event leaves the original favicon exactly when the script is not
\* in its waiting state
FocusRestores ==
  restoreOriginalFaviconOnFocus => (Original' <=> ~ isCurrentlyWaiting)

\* originalFaviconUrl is the URL of the start-up and is not captured again
CapturedAtStart ==
  poePc = "monitoring"
    => originalFaviconUrl' = originalFaviconUrl
       /\ href(originalFaviconUrl) = PoeFavicon

RoutedTo(item) ==
  Len(runs') = Len(runs) + 1
    => /\ runs'[Len(runs')].config.service = item.service
       /\ runs'[Len(runs')].config.id = item.id
       /\ runs'[Len(runs')].apiKey = getApiKey(storage', item.service)

\* C27: selecting a dropdown entry listed under provider P sends the
\* request to P's endpoint with P's credential, for every custom list that
\* add can produce.
C27_RoutedToListedProvider ==
  [][\A item \in dropdown.items : selectModel(item) => RoutedTo(item)]_vars

\* ------------------------------------------------------------------
\* Initialization and the user's selection
\* ------------------------------------------------------------------

\* the model the user selected last, which the click listener of a model
\* item persists as last_used_model, else the persisted id of an earlier
\* page, else the default
ChosenModel ==
  IF storage.last_used_model = Undefined THEN DefaultModel
  ELSE storage.last_used_model

\* C28: once initialization has finished the active model is the most
\* recently selected model if the user selected one, else the persisted
\* last-used model or the default (on a page with an article, where the
\* script has a user interface).
C28_InitKeepsSelection ==
  initPc = "done" /\ articleData => activeModel = ChosenModel

\* ------------------------------------------------------------------
\* Overlapping runs and the overlay
\* ------------------------------------------------------------------

\* run i was started before another run whose request is in flight and
\* whose overlay is open
Superseded(i) ==
  /\ i < Len(runs)
  /\ runs[Len(runs)].pc = "inFlight"
  /\ overlay.exists

\* run i ends, with a response or without one
Ends(i) ==
  \/ \E response \in SummaryResponses : onload(i, response)
  \/ ontimeout(i)

\* C29: the overlay shows only the outcome of the most recently started
\* run: the late success or error of an earlier run is never rendered into
\* the overlay of the run started after it.
C29_OnlyLatestRunRendered ==
  [][\A i \in DOMAIN runs : Superseded(i) /\ Ends(i) => overlay' = overlay]_vars

\* ------------------------------------------------------------------
\* lastSummary and the chat interface
\* ------------------------------------------------------------------

\* the content is the cleaned text of a successful summarization and is not
\* empty
NonEmptySummary(body) == body.kind = "summary" /\ body.text # <<>>

\* C30: lastSummary is empty or the cleaned text of a successful
\* summarization, and the chat toggle and input are offered only on an
\* overlay that shows a non-empty summary, never on one that shows an error
\* message, the missing-credential message included, or a blank summary.
C30_ChatOnlyAfterSummary ==
  /\ lastSummary = NoBody \/ NonEmptySummary(lastSummary)
  /\ overlay.chat => NonEmptySummary(overlay.body)

====
